---- MODULE Spec2Model ----
(***************************************************************************)
(* State-machine model of the salesforce-cdp-connector driver:             *)
(*   - AuthenticationHelper (salesforcecdpconnector/authentication_helper) *)
(*   - PasswordGrantAuth / ClientCredentialsAuth and SalesforceCDPClient   *)
(*     (src/salesforcecdpconnector/auth.py, client.py)                     *)
(*   - the PEP 249 Cursor (salesforce-cdp-connector/.../dbapi.py)          *)
(*   - the legacy SalesforceCDPCursor (salesforcecdpconnector/cursor.py)   *)
(***************************************************************************)
EXTENDS Integers, Sequences, FiniteSets, TLC

\* ------------------------------------------------------------------ bounds
NumThreads == 2
MaxTime == 1
MaxTTL == 1
MaxCalls == 2
MaxRows == 2
MaxArraysize == 2
MaxBatches == 3
MaxBatchRows == 2
MaxRetries == 4
MaxReqs == 4
MaxParamSets == 2
MaxQueryLen == 3
MaxStrLen == 2
MaxParams == 2
MaxPageRows == 2
MaxValue == 2

\* ------------------------------------------------------- program constants
MAX_RETRY_COUNT == 3
RETRY_DELAY_MIN_SECONDS == 0
RETRY_DELAY_MAX_SECONDS == 5

NoToken == 0
NoTime == -1
NoUrl == "None"

\* what the connection of an AuthenticationHelper was given when it was not a
\* password: a refresh token, or a refresh token together with a core token
RefreshToken == "refresh_token"
RefreshAndCoreToken == "refresh_token, core_token"

Threads == 1..NumThreads
SerialThreads == {1}
ExpiresIn == 1..MaxTTL
DomainUrl == "domain"

NoQueryId == 0
\* the value of Cursor._connection: the connection, or None
TheConnection == "Connection"
NoConnection == "None"
NoDescription == <<>>
NoSize == -1
NoBatchId == 0
Null == 0
\* the columns of the result set, and the order of the keys in a keyed row
Columns == <<"a", "b">>
KeyOrder == <<"b", "a">>

VARIABLES
    now,                \* wall clock read by datetime.now()
    \* AuthenticationHelper
    exchange_token, instance_url, token_expiry_time, lock, max_retries,
    \* PasswordGrantAuth / ClientCredentialsAuth and SalesforceCDPClient
    handler, _token, _instance_url, _token_created_at, _token_timeout,
    _base_api_path,
    \* callers, and the authentication server
    component, pc, loc, result, nTok, lastExp, calls,
    \* dbapi.Cursor, and the query service it talks to
    _query_id, _description, _rows_buffer, _row_index, _next_offset,
    _query_finished, _rowcount, _is_closed, _connection, arraysize, srv,
    \* the Connection of the cursor: Connection._is_closed
    connection_is_closed,
    \* 'out of range' errors received for page requests since execute
    oors,
    \* legacy SalesforceCDPCursor, and the batches of its result set
    data, has_next, next_batch_id, has_result, closed, batches,
    \* requests for a further page since execute, and the last operation
    reqs, lastOp

authVars == <<now, exchange_token, instance_url, token_expiry_time, lock,
              max_retries, handler, _token, _instance_url, _token_created_at,
              _token_timeout, _base_api_path, component, pc, loc, result,
              nTok, lastExp, calls>>

helperVars == <<exchange_token, instance_url, token_expiry_time, lock, max_retries>>
handlerVars == <<handler, _token, _instance_url, _token_created_at,
                 _token_timeout, _base_api_path>>

cursorVars == <<_query_id, _description, _rows_buffer, _row_index,
                _next_offset, _query_finished, _rowcount, _is_closed,
                _connection, connection_is_closed, arraysize, srv, oors>>
legacyVars == <<data, has_next, next_batch_id, has_result, closed, batches>>
histVars == <<reqs, lastOp>>

\* ---------------------------------------------------------------- helpers
NoLoc ==
    [i |-> 0, current_time |-> NoTime, access_token |-> NoToken, url |-> NoUrl,
     expiry |-> NoTime, posted |-> FALSE, auths |-> 0, ret |-> "none",
     start_tok |-> NoToken, start_url |-> NoUrl, start_valid |-> FALSE,
     start_expired |-> FALSE, at |-> NoTime, last_err |-> "none",
     with_core |-> FALSE, revoke |-> "none"]

NoResult ==
    [kind |-> "none", tok |-> NoToken, url |-> NoUrl, exp |-> NoTime,
     err |-> "none"]

Pair(tok, url, exp) ==
    [kind |-> "pair", tok |-> tok, url |-> url, exp |-> exp, err |-> "none"]

Raised(err) ==
    [kind |-> "raise", tok |-> NoToken, url |-> NoUrl, exp |-> NoTime,
     err |-> err]

ReturnedNone ==
    [kind |-> "null", tok |-> NoToken, url |-> NoUrl, exp |-> NoTime,
     err |-> "none"]

\* the authentication server: the k-th successful response carries access
\* token k and its own instance URL
UrlOf(k) == ToString(k)

Min(a, b) == IF a < b THEN a ELSE b

\* ---------------------------------------------------- AuthenticationHelper
\* a validity check that accepts any token it holds
IsTokenValid_IgnoresExpiry ==
    exchange_token # NoToken

\* a validity check that never accepts the cached token
IsTokenValid_NeverValid ==
    FALSE

\* _is_token_valid
IsTokenValid ==
    IF token_expiry_time # NoTime /\ exchange_token # NoToken
    THEN now < token_expiry_time
    ELSE FALSE

\* the cached session of the helper is within its TTL window
HelperWithinTTL ==
    /\ exchange_token # NoToken
    /\ token_expiry_time # NoTime
    /\ now < token_expiry_time

\* get_token is entered and evaluates the lock-free validity check of line 61
GetToken(t) ==
    /\ component \in {"helper", "refresh"}
    /\ pc[t] = "idle"
    /\ calls < MaxCalls
    /\ calls' = calls + 1
    /\ pc' = [pc EXCEPT ![t] = IF IsTokenValid THEN "h_fast_ret" ELSE "h_lock"]
    /\ loc' = [loc EXCEPT ![t] = [NoLoc EXCEPT !.start_tok = exchange_token,
                                               !.start_url = instance_url,
                                               !.start_valid = HelperWithinTTL,
                                               !.start_expired =
                                                   /\ exchange_token # NoToken
                                                   /\ token_expiry_time # NoTime
                                                   /\ ~HelperWithinTTL]]
    /\ result' = [result EXCEPT ![t] = NoResult]
    /\ UNCHANGED <<now, helperVars, handlerVars, component, nTok, lastExp>>
    /\ UNCHANGED <<cursorVars, legacyVars, histVars>>

\* get_token, line 62: return self.exchange_token, self.instance_url
FastReturn(t) ==
    /\ pc[t] = "h_fast_ret"
    /\ result' = [result EXCEPT ![t] =
                     Pair(exchange_token, instance_url, token_expiry_time)]
    /\ pc' = [pc EXCEPT ![t] = "done"]
    /\ UNCHANGED <<now, helperVars, handlerVars, component, loc, nTok,
                   lastExp, calls>>
    /\ UNCHANGED <<cursorVars, legacyVars, histVars>>

\* _get_token, line 80: self.lock.acquire()
Acquire(t) ==
    /\ pc[t] = "h_lock"
    /\ lock = 0
    /\ lock' = t
    /\ pc' = [pc EXCEPT ![t] = "h_locked"]
    /\ UNCHANGED <<now, exchange_token, instance_url, token_expiry_time,
                   max_retries, handlerVars, component, loc, result, nTok, lastExp, calls>>
    /\ UNCHANGED <<cursorVars, legacyVars, histVars>>

\* a bug that drops the re-check under the lock
LockedCheck_NoRecheck(t) ==
    /\ pc[t] = "h_locked"
    /\ pc' = [pc EXCEPT ![t] = "h_core"]
    /\ loc' = [loc EXCEPT ![t].at = now]
    /\ UNCHANGED <<now, helperVars, handlerVars, component, result, nTok,
                   lastExp, calls>>
    /\ UNCHANGED <<cursorVars, legacyVars, histVars>>

\* _get_token, lines 81-84 (and the finally of line 104 when it returns): a
\* connection with a refresh token and a core token tries the core token
\* first
LockedCheck(t) ==
    /\ pc[t] = "h_locked"
    /\ IF IsTokenValid
       THEN /\ result' = [result EXCEPT ![t] =
                   Pair(exchange_token, instance_url, token_expiry_time)]
            /\ lock' = 0
            /\ pc' = [pc EXCEPT ![t] = "done"]
            /\ loc' = loc
       ELSE /\ pc' = [pc EXCEPT ![t] = IF handler = RefreshAndCoreToken
                                       THEN "h_core_exchange"
                                       ELSE "h_core"]
            /\ loc' = [loc EXCEPT ![t].at = now]
            /\ UNCHANGED <<result, lock>>
    /\ UNCHANGED <<now, exchange_token, instance_url, token_expiry_time,
                   max_retries, handlerVars, component, nTok, lastExp,
                   calls>>
    /\ UNCHANGED <<cursorVars, legacyVars, histVars>>

\* a retry loop that catches every exception
HelperRaise_RetriesEverything(t, e) ==
    /\ lock' = 0
    /\ IF loc[t].i + 1 # max_retries
       THEN /\ pc' = [pc EXCEPT ![t] = "h_sleep"]
            /\ result' = result
       ELSE /\ pc' = [pc EXCEPT ![t] = "done"]
            /\ result' = [result EXCEPT ![t] = Raised(e)]
    /\ UNCHANGED <<cursorVars, legacyVars, histVars>>

\* an exception that leaves _get_token without releasing the lock
HelperRaise_KeepsLock(t, e) ==
    /\ lock' = lock
    /\ IF e = "ValueError" /\ loc[t].i + 1 # max_retries
       THEN /\ pc' = [pc EXCEPT ![t] = "h_sleep"]
            /\ result' = result
       ELSE /\ pc' = [pc EXCEPT ![t] = "done"]
            /\ result' = [result EXCEPT ![t] = Raised(e)]
    /\ UNCHANGED <<cursorVars, legacyVars, histVars>>

\* An exception of kind e leaves _get_token (finally: lock.release()) and
\* reaches the retry loop of get_token, lines 63-70.
HelperRaise(t, e) ==
    /\ lock' = 0
    /\ IF e = "ValueError" /\ loc[t].i + 1 # max_retries
       THEN /\ pc' = [pc EXCEPT ![t] = "h_sleep"]
            /\ result' = result
       ELSE /\ pc' = [pc EXCEPT ![t] = "done"]
            /\ result' = [result EXCEPT ![t] = Raised(e)]
    /\ UNCHANGED <<cursorVars, legacyVars, histVars>>

\* What a token post can come to: a 200 response with the expected body
\* ("ok"), a response with another status code (Error), a 200 response whose
\* body is not JSON (ValueError, raised by .json()), or a failure of the
\* connection to the server (requests' ConnectionError, raised by post)
PostOutcomes == {"ok", "Error", "ValueError", "ConnectionError"}

\* _token_by_un_pwd_flow / _token_by_jwt_bearer_flow / _renew_token:
\* the post that obtains the core token (a connection that was not given a
\* core token of its own)
CorePost(t) ==
    /\ pc[t] = "h_core"
    /\ \E out \in PostOutcomes :
          IF out = "ok"
          THEN /\ pc' = [pc EXCEPT ![t] = "h_exchange"]
               /\ loc' = [loc EXCEPT ![t].posted = TRUE,
                                     ![t].current_time = now]
               /\ UNCHANGED <<lock, result>>
          ELSE /\ HelperRaise(t, out)
               /\ loc' = [loc EXCEPT ![t].posted = TRUE, ![t].at = NoTime,
                                     ![t].last_err = out]
    /\ UNCHANGED <<now, exchange_token, instance_url, token_expiry_time,
                   max_retries, handlerVars, component, nTok, lastExp,
                   calls>>
    /\ UNCHANGED <<cursorVars, legacyVars, histVars>>

\* _exchange_token, lines 125-145: the a360 token post and its response. The
\* post of _revoke_core_token, line 133, is a step of its own in the
\* specifications of the refresh-token flow; elsewhere the revocation endpoint
\* answers every post, and its answer is not read
ExchangePost(t) ==
    /\ pc[t] = "h_exchange"
    /\ \E out \in PostOutcomes :
          IF out = "ok"
          THEN \E ttl \in ExpiresIn :
               /\ pc' = [pc EXCEPT ![t] = IF component = "refresh"
                                          THEN "h_revoke"
                                          ELSE "h_w_token"]
               /\ loc' = [loc EXCEPT ![t].auths = Min(@ + 1, 2),
                                     ![t].access_token = nTok + 1,
                                     ![t].url = UrlOf(nTok + 1),
                                     ![t].expiry = loc[t].current_time + ttl,
                                     ![t].current_time = NoTime,
                                     ![t].at = NoTime]
               /\ nTok' = nTok + 1
               /\ lastExp' = loc[t].current_time + ttl
               /\ UNCHANGED <<lock, result>>
          ELSE /\ HelperRaise(t, out)
               /\ loc' = [loc EXCEPT ![t].current_time = NoTime,
                                     ![t].at = NoTime,
                                     ![t].last_err = out]
               /\ UNCHANGED <<nTok, lastExp>>
    /\ UNCHANGED <<now, exchange_token, instance_url, token_expiry_time,
                   max_retries, handlerVars, component, calls>>
    /\ UNCHANGED <<cursorVars, legacyVars, histVars>>

\* _exchange_token, line 146
WriteToken(t) ==
    /\ pc[t] = "h_w_token"
    /\ exchange_token' = loc[t].access_token
    /\ pc' = [pc EXCEPT ![t] = "h_w_expiry"]
    /\ UNCHANGED <<now, instance_url, token_expiry_time, lock, max_retries,
                   handlerVars, component, loc, result, nTok, lastExp,
                   calls>>
    /\ UNCHANGED <<cursorVars, legacyVars, histVars>>

\* _exchange_token, line 147
WriteExpiry(t) ==
    /\ pc[t] = "h_w_expiry"
    /\ token_expiry_time' = loc[t].expiry
    /\ pc' = [pc EXCEPT ![t] = "h_w_url"]
    /\ UNCHANGED <<now, exchange_token, instance_url, lock, max_retries,
                   handlerVars, component, loc, result, nTok, lastExp,
                   calls>>
    /\ UNCHANGED <<cursorVars, legacyVars, histVars>>

\* _exchange_token, lines 148-149, and the finally of _get_token, line 104
WriteUrl(t) ==
    /\ pc[t] = "h_w_url"
    /\ instance_url' = loc[t].url
    /\ lock' = 0
    /\ result' = [result EXCEPT ![t] =
                     Pair(loc[t].access_token, loc[t].url, loc[t].expiry)]
    /\ pc' = [pc EXCEPT ![t] = "done"]
    /\ loc' = [loc EXCEPT ![t].access_token = NoToken, ![t].url = NoUrl,
                          ![t].expiry = NoTime]
    /\ UNCHANGED <<now, exchange_token, token_expiry_time, max_retries,
                   handlerVars, component, nTok, lastExp, calls>>
    /\ UNCHANGED <<cursorVars, legacyVars, histVars>>

\* the revocations of the connection's core token: revoked, a revocation post
\* for it was answered with status 200 after a successful exchange;
\* presented, the times the core token was posted to the token-exchange
\* endpoint; presented_revoked, it was posted there after it had been revoked
NoRevocation ==
    [op |-> "none", revoked |-> FALSE, presented |-> 0,
     presented_revoked |-> FALSE]

\* what the post of _revoke_core_token can come to: a response with status
\* 200, a response with another status, a failure of the connection
RevokeOutcomes == {"ok", "Error status", "ConnectionError"}

\* _get_token, lines 84-90: _exchange_token(login_url, connection.core_token);
\* every exception of the exchange is swallowed and _renew_token comes next
CoreTokenExchange(t) ==
    /\ pc[t] = "h_core_exchange"
    /\ \E out \in PostOutcomes :
          IF out = "ok"
          THEN \E ttl \in ExpiresIn :
               /\ pc' = [pc EXCEPT ![t] = "h_revoke"]
               /\ loc' = [loc EXCEPT ![t].auths = Min(@ + 1, 2),
                                     ![t].posted = TRUE,
                                     ![t].with_core = TRUE,
                                     ![t].access_token = nTok + 1,
                                     ![t].url = UrlOf(nTok + 1),
                                     ![t].expiry = now + ttl,
                                     ![t].at = NoTime]
               /\ nTok' = nTok + 1
               /\ lastExp' = now + ttl
          ELSE /\ pc' = [pc EXCEPT ![t] = "h_core"]
               /\ loc' = [loc EXCEPT ![t].posted = TRUE, ![t].last_err = out]
               /\ UNCHANGED <<nTok, lastExp>>
    /\ lastOp' = [lastOp EXCEPT !.op = "_exchange_token",
                                !.presented = Min(@ + 1, 2),
                                !.presented_revoked = @ \/ lastOp.revoked]
    /\ UNCHANGED <<now, helperVars, handlerVars, component, result, calls>>
    /\ UNCHANGED <<cursorVars, legacyVars, reqs>>

\* a revocation whose failures are all ignored
Revoke_BestEffort(t) ==
    /\ pc[t] = "h_revoke"
    /\ \E out \in RevokeOutcomes :
          /\ pc' = [pc EXCEPT ![t] = "h_w_token"]
          /\ loc' = [loc EXCEPT ![t].revoke = out]
          /\ UNCHANGED <<lock, result>>
          /\ lastOp' = [lastOp EXCEPT
                           !.op = "_revoke_core_token",
                           !.revoked = @ \/ (loc[t].with_core /\ out = "ok")]
    /\ UNCHANGED <<now, exchange_token, instance_url, token_expiry_time,
                   max_retries, handlerVars, component, nTok, lastExp, calls>>
    /\ UNCHANGED <<cursorVars, legacyVars, reqs>>

\* _exchange_token, line 133, and _revoke_core_token, lines 158-159: the
\* response of the post is not read; an exception of the post leaves
\* _exchange_token before line 146, and it is swallowed at line 87 when the
\* exchange was the one of the connection's core token
Revoke(t) ==
    /\ pc[t] = "h_revoke"
    /\ \E out \in RevokeOutcomes :
          /\ IF out # "ConnectionError"
             THEN /\ pc' = [pc EXCEPT ![t] = "h_w_token"]
                  /\ loc' = [loc EXCEPT ![t].revoke = out]
                  /\ UNCHANGED <<lock, result>>
             ELSE IF loc[t].with_core
             THEN /\ pc' = [pc EXCEPT ![t] = "h_core"]
                  /\ loc' = [loc EXCEPT ![t].revoke = out,
                                        ![t].with_core = FALSE,
                                        ![t].access_token = NoToken,
                                        ![t].url = NoUrl,
                                        ![t].expiry = NoTime]
                  /\ UNCHANGED <<lock, result>>
             ELSE /\ HelperRaise(t, out)
                  /\ loc' = [loc EXCEPT ![t].revoke = out,
                                        ![t].last_err = out,
                                        ![t].access_token = NoToken,
                                        ![t].url = NoUrl,
                                        ![t].expiry = NoTime]
          /\ lastOp' = [lastOp EXCEPT
                           !.op = "_revoke_core_token",
                           !.revoked = @ \/ (loc[t].with_core /\ out = "ok")]
    /\ UNCHANGED <<now, exchange_token, instance_url, token_expiry_time,
                   max_retries, handlerVars, component, nTok, lastExp, calls>>
    /\ UNCHANGED <<cursorVars, legacyVars, reqs>>

\* get_token, lines 69-70: the thread sleeps for a delay drawn from the
\* configured range (other threads and the clock move meanwhile), then the for
\* loop of line 63 goes on; when range(MAX_RETRY_COUNT) is used up the function
\* falls off its end
Sleep(t) ==
    /\ pc[t] = "h_sleep"
    /\ \E delay \in RETRY_DELAY_MIN_SECONDS..RETRY_DELAY_MAX_SECONDS :
          IF loc[t].i + 1 < MAX_RETRY_COUNT
          THEN /\ loc' = [loc EXCEPT ![t].i = @ + 1]
               /\ pc' = [pc EXCEPT ![t] = "h_lock"]
               /\ result' = result
          ELSE /\ loc' = loc
               /\ pc' = [pc EXCEPT ![t] = "done"]
               /\ result' = [result EXCEPT ![t] = ReturnedNone]
    /\ UNCHANGED <<now, helperVars, handlerVars, component, nTok,
                   lastExp, calls>>
    /\ UNCHANGED <<cursorVars, legacyVars, histVars>>

\* the caller takes the outcome of its request
Finish(t) ==
    /\ pc[t] = "done"
    /\ pc' = [pc EXCEPT ![t] = "idle"]
    /\ result' = [result EXCEPT ![t] = NoResult]
    /\ loc' = [loc EXCEPT ![t] = NoLoc]
    /\ UNCHANGED <<now, helperVars, handlerVars, component, nTok, lastExp, calls>>
    /\ UNCHANGED <<cursorVars, legacyVars, histVars>>

\* time passes
Tick ==
    /\ now < MaxTime
    /\ now' = now + 1
    /\ UNCHANGED <<helperVars, handlerVars, component, pc, loc, result, nTok, lastExp, calls>>
    /\ UNCHANGED <<cursorVars, legacyVars, histVars>>

HelperStep(t) ==
    \/ GetToken(t)
    \/ FastReturn(t)
    \/ Acquire(t)
    \/ LockedCheck(t)
    \/ CorePost(t)
    \/ ExchangePost(t)
    \/ WriteToken(t)
    \/ WriteExpiry(t)
    \/ WriteUrl(t)
    \/ Sleep(t)
    \/ Finish(t)

\* the steps of the helper of a connection with a refresh token
RefreshStep(t) ==
    \/ HelperStep(t)
    \/ CoreTokenExchange(t)
    \/ Revoke(t)

\* ------------------------------ PasswordGrantAuth / ClientCredentialsAuth
\* the cached session of the handler is within its TTL window
HandlerWithinTTL ==
    /\ _token # NoToken
    /\ _token_created_at # NoTime
    /\ now - _token_created_at < _token_timeout

\* PasswordGrantAuth._is_token_valid / ClientCredentialsAuth._is_token_valid
HandlerIsTokenValid ==
    IF _token = NoToken \/ _token_created_at = NoTime
    THEN FALSE
    ELSE now - _token_created_at < _token_timeout

\* SalesforceCDPClient._request is entered; line 30: ensure_valid_token(),
\* which sends the authentication request when the token is not valid
Request(t) ==
    /\ component = "handler"
    /\ pc[t] = "idle"
    /\ calls < MaxCalls
    /\ calls' = calls + 1
    /\ pc' = [pc EXCEPT ![t] = IF HandlerIsTokenValid THEN "a_base" ELSE "a_post"]
    /\ loc' = [loc EXCEPT ![t] =
                  [NoLoc EXCEPT !.ret = "a_base",
                                !.start_tok = _token,
                                !.start_url = IF _base_api_path # NoUrl
                                              THEN _base_api_path
                                              ELSE _instance_url,
                                !.start_valid = HandlerWithinTTL,
                                !.start_expired =
                                    /\ _token # NoToken
                                    /\ _token_created_at # NoTime
                                    /\ ~HandlerWithinTTL]]
    /\ result' = [result EXCEPT ![t] = NoResult]
    /\ UNCHANGED <<now, helperVars, handlerVars, component, nTok, lastExp>>
    /\ UNCHANGED <<cursorVars, legacyVars, histVars>>

\* authenticate, lines 64-88 / 152-178: the response of the token endpoint
\* arrives; on success line 68 / 156 stores the token
AuthResponse(t) ==
    /\ pc[t] = "a_post"
    /\ \E out \in {"ok", "HTTPError", "KeyError_token", "KeyError_url"} :
          CASE out = "ok" ->
                 /\ _token' = nTok + 1
                 /\ nTok' = nTok + 1
                 /\ loc' = [loc EXCEPT ![t].posted = TRUE,
                                       ![t].auths = Min(@ + 1, 2),
                                       ![t].url = IF handler = "password"
                                                  THEN UrlOf(nTok + 1)
                                                  ELSE DomainUrl]
                 /\ pc' = [pc EXCEPT ![t] = "a_w_url"]
                 /\ result' = result
            [] out = "KeyError_url" ->
                 \* PasswordGrantAuth: the response has no instance_url; line 68
                 \* has already replaced the token when line 69 raises
                 /\ handler = "password"
                 /\ _token' = nTok + 1
                 /\ nTok' = nTok + 1
                 /\ loc' = [loc EXCEPT ![t].posted = TRUE]
                 /\ pc' = [pc EXCEPT ![t] = "done"]
                 /\ result' = [result EXCEPT ![t] = Raised("AuthenticationError")]
            [] OTHER ->
                 /\ loc' = [loc EXCEPT ![t].posted = TRUE]
                 /\ pc' = [pc EXCEPT ![t] = "done"]
                 /\ result' = [result EXCEPT ![t] = Raised("AuthenticationError")]
                 /\ UNCHANGED <<_token, nTok>>
    /\ UNCHANGED <<now, helperVars, handler, _instance_url, _token_created_at,
                   _token_timeout, _base_api_path, component, lastExp, calls>>
    /\ UNCHANGED <<cursorVars, legacyVars, histVars>>

\* authenticate, lines 69-73 / 159-163
HandlerWriteUrl(t) ==
    /\ pc[t] = "a_w_url"
    /\ _instance_url' = loc[t].url
    /\ pc' = [pc EXCEPT ![t] = "a_w_created"]
    /\ UNCHANGED <<now, helperVars, handler, _token, _token_created_at,
                   _token_timeout, _base_api_path, component, loc, result,
                   nTok, lastExp, calls>>
    /\ UNCHANGED <<cursorVars, legacyVars, histVars>>

\* authenticate, line 74 / 164, and the return to the caller of
\* ensure_valid_token
HandlerWriteCreated(t) ==
    /\ pc[t] = "a_w_created"
    /\ _token_created_at' = now
    /\ pc' = [pc EXCEPT ![t] = loc[t].ret]
    /\ loc' = [loc EXCEPT ![t].url = NoUrl]
    /\ UNCHANGED <<now, helperVars, handler, _token, _instance_url,
                   _token_timeout, _base_api_path, component, result, nTok,
                   lastExp, calls>>
    /\ UNCHANGED <<cursorVars, legacyVars, histVars>>

\* SalesforceCDPClient._get_base_api_path, with get_instance_url
BasePath(t) ==
    /\ pc[t] = "a_base"
    /\ IF _base_api_path # NoUrl
       THEN /\ pc' = [pc EXCEPT ![t] = "a_headers"]
            /\ UNCHANGED <<_base_api_path, result, loc>>
       ELSE IF _instance_url # NoUrl
       THEN /\ _base_api_path' = _instance_url
            /\ pc' = [pc EXCEPT ![t] = "a_headers"]
            /\ UNCHANGED <<result, loc>>
       ELSE IF ~HandlerIsTokenValid
       THEN /\ pc' = [pc EXCEPT ![t] = "a_post"]
            /\ loc' = [loc EXCEPT ![t].ret = "a_base"]
            /\ UNCHANGED <<_base_api_path, result>>
       ELSE /\ pc' = [pc EXCEPT ![t] = "done"]
            /\ result' = [result EXCEPT ![t] = Raised("AuthenticationError")]
            /\ UNCHANGED <<_base_api_path, loc>>
    /\ UNCHANGED <<now, helperVars, handler, _token, _instance_url,
                   _token_created_at, _token_timeout, component, nTok, lastExp,
                   calls>>
    /\ UNCHANGED <<cursorVars, legacyVars, histVars>>

\* get_headers, line 103 / 192: ensure_valid_token()
Headers(t) ==
    /\ pc[t] = "a_headers"
    /\ pc' = [pc EXCEPT ![t] = IF HandlerIsTokenValid THEN "a_send" ELSE "a_post"]
    /\ loc' = [loc EXCEPT ![t].ret = "a_send"]
    /\ UNCHANGED <<now, helperVars, handlerVars, component, result, nTok,
                   lastExp, calls>>
    /\ UNCHANGED <<cursorVars, legacyVars, histVars>>

\* get_headers, lines 104-109, and client.py line 55: the API request goes out
\* with the bearer token, addressed to the base path
Send(t) ==
    /\ pc[t] = "a_send"
    /\ result' = [result EXCEPT ![t] =
                     IF _token = NoToken
                     THEN Raised("AuthenticationError")
                     ELSE Pair(_token, _base_api_path,
                               _token_created_at + _token_timeout)]
    /\ pc' = [pc EXCEPT ![t] = "done"]
    /\ UNCHANGED <<now, helperVars, handlerVars, component, loc, nTok, lastExp,
                   calls>>
    /\ UNCHANGED <<cursorVars, legacyVars, histVars>>

HandlerStep(t) ==
    \/ Request(t)
    \/ AuthResponse(t)
    \/ HandlerWriteUrl(t)
    \/ HandlerWriteCreated(t)
    \/ BasePath(t)
    \/ Headers(t)
    \/ Send(t)
    \/ Finish(t)

\* ------------------------------------------------ the query service
NoServer ==
    [n |-> 0, first |-> 0, reportsTotal |-> FALSE, nextStyle |-> "honest",
     stateStyle |-> "honest", shape |-> "list", cap |-> 1, oor |-> FALSE,
     meta |-> TRUE, msg |-> "out of range", done |-> "Finished"]

\* a query service that holds n rows for the query, answers the submission
\* with the first rows, sends at most cap rows in a page, and reports totalRows,
\* nextOffset and the completion status in one of the ways seen in responses;
\* oor: a page requested past the last row is answered with an error, whose
\* message is msg (the other error is sent by services that send positional
\* rows and no totalRows); done: the completion status of a query that is
\* complete
Servers ==
    {s \in [n : 0..MaxRows, first : 0..MaxRows, reportsTotal : BOOLEAN,
            nextStyle : {"honest", "always", "never"},
            stateStyle : {"honest", "running"}, shape : {"list", "dict"},
            cap : {1, MaxArraysize}, oor : BOOLEAN, meta : BOOLEAN,
            msg : {"out of range", "service unavailable"},
            done : {"Finished"}] :
        /\ s.first <= s.n
        /\ s.oor => s.nextStyle = "always"
        /\ ~s.oor => s.msg = "out of range"
        /\ s.msg # "out of range"
              => s.shape = "list" /\ s.stateStyle = "honest" /\ ~s.reportsTotal
        /\ ~s.meta => s.shape = "dict"}

\* the result sets of the legacy query API: the sizes of the batches
BatchLists ==
    UNION {[1..k -> 0..MaxBatchRows] : k \in 1..MaxBatches}

\* status: the completion status in the answer to a submitted query;
\* submits: the submit_query calls that the execute() made; authFailed: the
\* last execute() raised AuthenticationError
NoOp ==
    [op |-> "none", rows |-> <<>>, none |-> FALSE, err |-> "none",
     empty |-> FALSE, wasFinished |-> TRUE, nth |-> 0, more |-> FALSE,
     after |-> 0, executed |-> FALSE, status |-> "none", submits |-> 0,
     authFailed |-> FALSE]

\* ------------------------------------------------------ dbapi.Cursor (PEP 249)
\* the cursor object as one record, for the operators below
Cur ==
    [_query_id |-> _query_id, _description |-> _description,
     _rows_buffer |-> _rows_buffer, _row_index |-> _row_index,
     _next_offset |-> _next_offset, _query_finished |-> _query_finished,
     _rowcount |-> _rowcount, _is_closed |-> _is_closed,
     _connection |-> _connection,
     connection_is_closed |-> connection_is_closed,
     arraysize |-> arraysize, reqs |-> reqs, oors |-> oors]

SetCur(c) ==
    /\ _query_id' = c._query_id
    /\ _description' = c._description
    /\ _rows_buffer' = c._rows_buffer
    /\ _row_index' = c._row_index
    /\ _next_offset' = c._next_offset
    /\ _query_finished' = c._query_finished
    /\ _rowcount' = c._rowcount
    /\ _is_closed' = c._is_closed
    /\ _connection' = c._connection
    /\ connection_is_closed' = c.connection_is_closed
    /\ arraysize' = c.arraysize
    /\ reqs' = c.reqs
    /\ oors' = c.oors

\* Cursor._check_closed, with Connection._check_closed: the exception that
\* is raised ("none": the call returns). self._connection.Error is looked up
\* on the connection, which close() has replaced by None.
CheckClosed(c) ==
    IF c._is_closed
    THEN IF c._connection = NoConnection THEN "AttributeError" ELSE "Error"
    ELSE IF c.connection_is_closed THEN "Error" ELSE "none"

\* a _clear_state that leaves the read position where it is
ClearState_KeepsIndex(c) ==
    [c EXCEPT !._query_id = NoQueryId, !._description = NoDescription,
              !._rows_buffer = <<>>, !._next_offset = 0,
              !._query_finished = TRUE, !._rowcount = -1]

\* Cursor._clear_state
ClearState(c) ==
    [c EXCEPT !._query_id = NoQueryId, !._description = NoDescription,
              !._rows_buffer = <<>>, !._row_index = 0, !._next_offset = 0,
              !._query_finished = TRUE, !._rowcount = -1]

\* row k of the result set as the server sends it: positional or keyed
ListRow(k) == <<k, 0 - k>>
DictRow(k) == [a |-> k, b |-> 0 - k]

\* the response of the query API for the rows from offset on: the first page
\* (submit_query, which sends no row limit) has the size the server chooses,
\* a later page has at most limit rows; state is the completion status that
\* the page carries (the status of a page that ends the result is s.done
\* unless the server reports "Running" throughout)
Response(s, offset, limit, isFirst) ==
    LET left == IF s.n > offset THEN s.n - offset ELSE 0
        size == IF isFirst THEN s.first ELSE Min(Min(limit, s.cap), left)
        end == offset + size
    IN  [err |-> IF ~isFirst /\ offset >= s.n /\ s.oor THEN s.msg ELSE "none",
         ids |-> [i \in 1..size |-> offset + i],
         shape |-> s.shape,
         returnedRows |-> size,
         hasTotal |-> s.reportsTotal,
         totalRows |-> s.n,
         hasNext |-> CASE s.nextStyle = "always" -> TRUE
                       [] s.nextStyle = "never" -> FALSE
                       [] OTHER -> end < s.n,
         nextOffset |-> end,
         state |-> IF s.stateStyle = "honest" /\ end >= s.n
                   THEN s.done ELSE "Running"]

\* str.upper() on the completion status words
Upper(w) ==
    CASE w \in {"Failed", "failed", "FAILED"} -> "FAILED"
      [] w \in {"Finished", "FINISHED"} -> "FINISHED"
      [] w \in {"Completed", "COMPLETED"} -> "COMPLETED"
      [] w \in {"Running", "RUNNING"} -> "RUNNING"
      [] w \in {"Unspecified", "UNSPECIFIED"} -> "UNSPECIFIED"

\* the completion status of a query that failed, as servers spell it
FailedStatuses == {"Failed", "FAILED"}

\* what submit_query can come to: a response with rows ("ok"), a response
\* with a completion status of failure, an ApiError, a response without
\* queryId
SubmitOutcomes == {"ok", "ApiError", "no queryId"} \cup FailedStatuses

\* the errors that SalesforceCDPClient._request raises
ClientErrors == {"ApiError", "AuthenticationError", "QueryError"}

\* the query id of a query that the server runs, and of one that failed
QueryId == 1
FailedQueryId == 2

\* _fetch_more_data, lines 351-352: the test on the lower-cased message
IsOutOfRange(error_msg) ==
    CASE error_msg = "out of range" -> TRUE
      [] error_msg = "service unavailable" -> FALSE
      [] error_msg = "query failed" -> FALSE

\* Cursor._parse_description: the column names, or None without metadata
ParseDescription(s) ==
    IF s.meta THEN Columns ELSE NoDescription

\* Cursor._data_to_tuples
DataToTuples(ids, shape, description) ==
    IF ids = <<>>
    THEN <<>>
    ELSE IF shape = "dict"
    THEN LET ordered_keys == IF description = NoDescription
                             THEN KeyOrder
                             ELSE description
         IN  [i \in 1..Len(ids) |->
                 [j \in 1..Len(ordered_keys) |-> DictRow(ids[i])[ordered_keys[j]]]]
    ELSE [i \in 1..Len(ids) |-> ListRow(ids[i])]

\* the completion status that execute reads in the answer of submit_query
\* ("none": the cursor is closed, or no answer with a status arrives)
SubmitStatus(c0, s, out) ==
    IF CheckClosed(c0) # "none" \/ out \in ClientErrors \cup {"no queryId"}
    THEN "none"
    ELSE IF out \in FailedStatuses
    THEN out
    ELSE Response(s, 0, 0, TRUE).state

\* an execute that calls submit_query a second time when the first call
\* raised AuthenticationError
Execute_RetriesAuthentication(c0, s, out) ==
    IF CheckClosed(c0) # "none"
    THEN [c |-> c0, err |-> CheckClosed(c0), submits |-> 0]
    ELSE LET c == [ClearState(c0) EXCEPT !.reqs = 0, !.oors = 0]
             r == Response(s, 0, 0, TRUE)
         IN  IF out = "ApiError"
             THEN [c |-> c, err |-> "OperationalError", submits |-> 1]
             ELSE IF out \in {"AuthenticationError", "QueryError"}
             THEN [c |-> c, err |-> out,
                   submits |-> IF out = "AuthenticationError" THEN 2 ELSE 1]
             ELSE IF out = "no queryId"
             THEN [c |-> c, err |-> "InterfaceError", submits |-> 1]
             ELSE IF out \in FailedStatuses /\ Upper(out) = "FAILED"
             THEN [c |-> [c EXCEPT !._query_id = FailedQueryId],
                   err |-> "QueryError", submits |-> 1]
             ELSE LET desc == ParseDescription(s)
                      buf == DataToTuples(r.ids, r.shape, desc)
                      fin == \/ Upper(r.state) = "FINISHED"
                             \/ r.hasTotal /\ r.returnedRows >= r.totalRows
                             \/ ~r.hasNext \/ r.nextOffset < 0
                             \/ r.returnedRows < c.arraysize
                  IN  [c |-> [c EXCEPT !._query_id = QueryId,
                                       !._description = desc,
                                       !._rows_buffer = buf,
                                       !._next_offset = r.returnedRows,
                                       !._query_finished = fin,
                                       !._rowcount = IF fin THEN Len(buf) ELSE -1],
                       err |-> "none", submits |-> 1]

\* Cursor.execute: out is the outcome of submit_query; submits counts the
\* submit_query calls, and the except clauses of lines 232-243 give the error
\* that is raised
Execute(c0, s, out) ==
    IF CheckClosed(c0) # "none"
    THEN [c |-> c0, err |-> CheckClosed(c0), submits |-> 0]
    ELSE LET c == [ClearState(c0) EXCEPT !.reqs = 0, !.oors = 0]
             r == Response(s, 0, 0, TRUE)
         IN  IF out = "ApiError"
             THEN [c |-> c, err |-> "OperationalError", submits |-> 1]
             ELSE IF out \in {"AuthenticationError", "QueryError"}
             THEN [c |-> c, err |-> out, submits |-> 1]
             ELSE IF out = "no queryId"
             THEN [c |-> c, err |-> "InterfaceError", submits |-> 1]
             ELSE IF out \in FailedStatuses /\ Upper(out) = "FAILED"
             THEN [c |-> [c EXCEPT !._query_id = FailedQueryId],
                   err |-> "QueryError", submits |-> 1]
             ELSE LET desc == ParseDescription(s)
                      buf == DataToTuples(r.ids, r.shape, desc)
                      fin == \/ Upper(r.state) = "FINISHED"
                             \/ r.hasTotal /\ r.returnedRows >= r.totalRows
                             \/ ~r.hasNext \/ r.nextOffset < 0
                             \/ r.returnedRows < c.arraysize
                  IN  [c |-> [c EXCEPT !._query_id = QueryId,
                                       !._description = desc,
                                       !._rows_buffer = buf,
                                       !._next_offset = r.returnedRows,
                                       !._query_finished = fin,
                                       !._rowcount = IF fin THEN Len(buf) ELSE -1],
                       err |-> "none", submits |-> 1]

\* get_query_results: the page of a query that runs, or the ApiError that a
\* request for the rows of a failed query is answered with
PageResponse(c, s) ==
    IF c._query_id = FailedQueryId
    THEN [Response(s, c._next_offset, c.arraysize, FALSE)
             EXCEPT !.err = "query failed"]
    ELSE Response(s, c._next_offset, c.arraysize, FALSE)

\* _fetch_more_data, lines 301-347: the bookkeeping of a page that arrived
TakePage(c, c1, done, r) ==
    IF r.returnedRows = 0
    THEN [c |-> done, more |-> FALSE, err |-> "none", empty |-> TRUE]
    ELSE LET buf == c._rows_buffer \o DataToTuples(r.ids, r.shape, c._description)
             off == c._next_offset + r.returnedRows
             fin == \/ ~r.hasNext \/ r.nextOffset < 0
                    \/ r.hasTotal /\ off >= r.totalRows
                    \/ r.returnedRows < c.arraysize
         IN  [c |-> [c1 EXCEPT !._rows_buffer = buf,
                               !._next_offset = off,
                               !._query_finished = fin \/ @,
                               !._rowcount = IF fin
                                             THEN c._row_index + Len(buf)
                                             ELSE @],
              more |-> TRUE, err |-> "none", empty |-> FALSE]

\* a _fetch_more_data that re-raises every ApiError of get_query_results
FetchPage_RaisesOutOfRange(c, s) ==
    LET r == PageResponse(c, s)
        c1 == [c EXCEPT !.reqs = @ + 1]
        done == [c1 EXCEPT !._query_finished = TRUE,
                           !._rowcount = c._row_index + Len(c._rows_buffer)]
    IN  IF c._query_id = NoQueryId
        THEN [c |-> c, more |-> FALSE, err |-> "InternalError", empty |-> FALSE]
        ELSE IF r.err # "none"
        THEN [c |-> [c1 EXCEPT !.oors = IF IsOutOfRange(r.err) THEN @ + 1 ELSE @],
              more |-> FALSE, err |-> "OperationalError", empty |-> FALSE]
        ELSE TakePage(c, c1, done, r)

\* Cursor._fetch_more_data, lines 301-367: one get_query_results request,
\* the bookkeeping of its page, and the handling of an ApiError
FetchPage(c, s) ==
    LET r == PageResponse(c, s)
        c1 == [c EXCEPT !.reqs = @ + 1]
        done == [c1 EXCEPT !._query_finished = TRUE,
                           !._rowcount = c._row_index + Len(c._rows_buffer)]
    IN  IF c._query_id = NoQueryId
        THEN [c |-> c, more |-> FALSE, err |-> "InternalError", empty |-> FALSE]
        ELSE IF r.err # "none"
        THEN IF IsOutOfRange(r.err)
             THEN [c |-> [done EXCEPT !.oors = @ + 1], more |-> FALSE,
                   err |-> "none", empty |-> FALSE]
             ELSE [c |-> c1, more |-> FALSE, err |-> "OperationalError",
                   empty |-> FALSE]
        ELSE TakePage(c, c1, done, r)

\* a _fetch_more_data that does not look at the finished flag
FetchMoreData_NoFinishedCheck(c, s) ==
    FetchPage(c, s)

\* Cursor._fetch_more_data
FetchMoreData(c, s) ==
    IF c._query_finished
    THEN [c |-> c, more |-> FALSE, err |-> "none", empty |-> FALSE]
    ELSE FetchPage(c, s)

\* the result of a fetch operation: the cursor afterwards, the rows returned
\* (fetchone: the row, or none = TRUE), the error raised, and whether a
\* zero-row page was received
Fetched(c, rows, none, err, empty) ==
    [c |-> c, rows |-> rows, none |-> none, err |-> err, empty |-> empty]

\* Cursor.fetchone
FetchOne(c, s) ==
    IF CheckClosed(c) # "none"
    THEN Fetched(c, <<>>, FALSE, CheckClosed(c), FALSE)
    ELSE IF c._row_index < Len(c._rows_buffer)
    THEN Fetched([c EXCEPT !._row_index = @ + 1],
                 <<c._rows_buffer[c._row_index + 1]>>, FALSE, "none", FALSE)
    ELSE IF c._query_finished
    THEN Fetched(c, <<>>, TRUE, "none", FALSE)
    ELSE LET f == FetchMoreData(c, s)
         IN  IF f.err # "none"
             THEN Fetched(f.c, <<>>, FALSE, f.err, f.empty)
             ELSE IF ~f.more
             THEN Fetched(f.c, <<>>, TRUE, "none", f.empty)
             ELSE IF f.c._row_index < Len(f.c._rows_buffer)
             THEN Fetched([f.c EXCEPT !._row_index = @ + 1],
                          <<f.c._rows_buffer[f.c._row_index + 1]>>, FALSE,
                          "none", f.empty)
             ELSE Fetched([f.c EXCEPT !._query_finished = TRUE], <<>>, TRUE,
                          "none", f.empty)

\* Cursor.fetchall, lines 444-449: the loop over the remaining pages
RECURSIVE FetchAllLoop(_, _, _, _)
FetchAllLoop(c, s, results, empty) ==
    IF c._query_finished
    THEN Fetched(c, results, FALSE, "none", empty)
    ELSE LET f == FetchMoreData(c, s)
         IN  IF f.err # "none"
             THEN Fetched(f.c, <<>>, FALSE, f.err, empty \/ f.empty)
             ELSE IF ~f.more
             THEN Fetched(f.c, results, FALSE, "none", empty \/ f.empty)
             ELSE FetchAllLoop(
                      [f.c EXCEPT !._row_index = Len(f.c._rows_buffer)], s,
                      results \o SubSeq(f.c._rows_buffer, f.c._row_index + 1,
                                        Len(f.c._rows_buffer)),
                      empty \/ f.empty)

\* Cursor.fetchall
FetchAll(c, s) ==
    IF CheckClosed(c) # "none"
    THEN Fetched(c, <<>>, FALSE, CheckClosed(c), FALSE)
    ELSE FetchAllLoop([c EXCEPT !._row_index = Len(c._rows_buffer)], s,
                      SubSeq(c._rows_buffer, c._row_index + 1,
                             Len(c._rows_buffer)),
                      FALSE)

\* Cursor.fetchmany, lines 409-430: the loop
RECURSIVE FetchManyLoop(_, _, _, _, _)
FetchManyLoop(c, s, fetch_size, results, empty) ==
    LET available_in_buffer == Len(c._rows_buffer) - c._row_index
        needed == fetch_size - Len(results)
        fetch_from_buffer == Min(available_in_buffer, needed)
        end_index == c._row_index + fetch_from_buffer
        c1 == IF fetch_from_buffer > 0
              THEN [c EXCEPT !._row_index = end_index]
              ELSE c
        res1 == IF fetch_from_buffer > 0
                THEN results \o SubSeq(c._rows_buffer, c._row_index + 1, end_index)
                ELSE results
    IN  IF Len(res1) < fetch_size /\ ~c1._query_finished
        THEN LET f == FetchMoreData(c1, s)
             IN  IF f.err # "none"
                 THEN Fetched(f.c, <<>>, FALSE, f.err, empty \/ f.empty)
                 ELSE IF ~f.more
                 THEN Fetched(f.c, res1, FALSE, "none", empty \/ f.empty)
                 ELSE FetchManyLoop(f.c, s, fetch_size, res1, empty \/ f.empty)
        ELSE Fetched(c1, res1, FALSE, "none", empty)

\* Cursor.fetchmany; size = NoSize stands for the default, arraysize
FetchMany(c, s, size) ==
    LET fetch_size == IF size # NoSize THEN size ELSE c.arraysize
    IN  IF CheckClosed(c) # "none"
        THEN Fetched(c, <<>>, FALSE, CheckClosed(c), FALSE)
        ELSE IF fetch_size <= 0
        THEN Fetched(c, <<>>, FALSE, "none", FALSE)
        ELSE FetchManyLoop(c, s, fetch_size, <<>>, FALSE)

\* what the last operation on the cursor did
Op(name, f, wasFinished) ==
    [op |-> name, rows |-> f.rows, none |-> f.none, err |-> f.err,
     empty |-> f.empty, wasFinished |-> wasFinished,
     nth |-> Min(lastOp.nth + 1, 2), more |-> FALSE,
     executed |-> lastOp.executed,
     authFailed |-> IF lastOp.op = "execute"
                    THEN lastOp.err = "AuthenticationError"
                    ELSE lastOp.authFailed]

\* cursor.execute(sql): out is what submit_query answers, one of outs
DbExecuteOn(outs) ==
    /\ \E out \in outs :
          \E e \in {Execute(Cur, srv, out)} :
              /\ SetCur(e.c)
              /\ lastOp' = [NoOp EXCEPT !.op = "execute", !.err = e.err,
                                        !.wasFinished = _query_finished,
                                        !.executed = e.err = "none",
                                        !.status = SubmitStatus(Cur, srv, out),
                                        !.submits = e.submits]
    /\ UNCHANGED <<srv, authVars, legacyVars>>

\* cursor.execute(sql) answered by the query service
DbExecute ==
    DbExecuteOn(SubmitOutcomes)

\* cursor.execute(sql) answered with rows, or with a response that carries no
\* queryId
DbExecuteNoQueryId ==
    DbExecuteOn({"ok", "no queryId"})

\* cursor.execute(sql) answered by the query service, or failing in the
\* client with any of its errors
DbExecuteAny ==
    DbExecuteOn(SubmitOutcomes \cup ClientErrors)

\* the loop of executemany: one execute() per parameter set, outs[i] being
\* what submit_query answers for the i-th; an execute() that raises ends it
RECURSIVE ExecuteManyLoop(_, _, _)
ExecuteManyLoop(c, s, outs) ==
    IF outs = <<>>
    THEN [c |-> c, err |-> "none"]
    ELSE LET e == Execute(c, s, Head(outs))
         IN  IF e.err # "none"
             THEN [c |-> e.c, err |-> e.err]
             ELSE ExecuteManyLoop(e.c, s, Tail(outs))

\* BaseCursor.executemany (base.py 136-139), which the cursor classes
\* override: the loop alone
ExecuteMany_Inherited(c0, s, outs) ==
    ExecuteManyLoop(c0, s, outs)

\* Cursor.executemany
ExecuteMany(c0, s, outs) ==
    IF CheckClosed(c0) # "none"
    THEN [c |-> c0, err |-> CheckClosed(c0)]
    ELSE LET l == ExecuteManyLoop(c0, s, outs)
         IN  IF l.err # "none"
             THEN l
             ELSE [c |-> [l.c EXCEPT !._rowcount = -1], err |-> "none"]

\* the sequences of parameter sets, as what submit_query answers for each
ParamSets ==
    UNION {[1..k -> SubmitOutcomes] : k \in 0..MaxParamSets}

\* cursor.executemany(sql, seq_of_parameters)
DbExecuteMany ==
    /\ \E outs \in ParamSets :
          \E e \in {ExecuteMany(Cur, srv, outs)} :
              /\ SetCur(e.c)
              /\ lastOp' = [NoOp EXCEPT !.op = "executemany", !.err = e.err,
                                        !.wasFinished = _query_finished,
                                        !.nth = Len(outs),
                                        !.executed = IF outs = <<>>
                                                     THEN lastOp.executed
                                                     ELSE e.err = "none"]
    /\ UNCHANGED <<srv, authVars, legacyVars>>

\* cursor.fetchone(); a caller gives up on a query after MaxReqs page requests
DbFetchOne ==
    /\ reqs < MaxReqs
    /\ \E f \in {FetchOne(Cur, srv)} :
           /\ SetCur(f.c)
           /\ lastOp' = Op("fetchone", f, _query_finished)
    /\ UNCHANGED <<srv, authVars, legacyVars>>

\* cursor.fetchmany(size) and cursor.fetchmany()
DbFetchMany ==
    /\ reqs < MaxReqs
    /\ \E size \in (0..MaxArraysize) \cup {NoSize} :
          \E f \in {FetchMany(Cur, srv, size)} :
              /\ SetCur(f.c)
              /\ lastOp' = Op("fetchmany", f, _query_finished)
    /\ UNCHANGED <<srv, authVars, legacyVars>>

\* cursor.fetchall()
DbFetchAll ==
    /\ reqs < MaxReqs
    /\ \E f \in {FetchAll(Cur, srv)} :
           /\ SetCur(f.c)
           /\ lastOp' = Op("fetchall", f, _query_finished)
    /\ UNCHANGED <<srv, authVars, legacyVars>>

\* cursor._fetch_more_data(), called on its own
DbFetchMoreData ==
    /\ reqs < MaxReqs
    /\ \E f \in {FetchMoreData(Cur, srv)} :
           /\ SetCur(f.c)
           /\ lastOp' = [Op("_fetch_more_data",
                            Fetched(f.c, <<>>, FALSE, f.err, f.empty),
                            _query_finished) EXCEPT !.more = f.more]
    /\ UNCHANGED <<srv, authVars, legacyVars>>

\* cursor.close()
DbClose ==
    /\ IF _is_closed
       THEN UNCHANGED <<cursorVars, histVars>>
       ELSE /\ SetCur([ClearState(Cur) EXCEPT !._is_closed = TRUE,
                                              !._connection = NoConnection])
            /\ srv' = srv
            /\ lastOp' = [NoOp EXCEPT !.op = "close",
                                      !.wasFinished = _query_finished]
    /\ UNCHANGED <<authVars, legacyVars>>

\* connection.close(): the cursors of the connection are left as they are
DbConnectionClose ==
    /\ connection_is_closed' = TRUE
    /\ lastOp' = IF connection_is_closed
                 THEN lastOp
                 ELSE [NoOp EXCEPT !.op = "connection.close",
                                   !.wasFinished = _query_finished,
                                   !.executed = lastOp.executed]
    /\ UNCHANGED <<_query_id, _description, _rows_buffer, _row_index,
                   _next_offset, _query_finished, _rowcount, _is_closed,
                   _connection, arraysize, srv, reqs, oors>>
    /\ UNCHANGED <<authVars, legacyVars>>

\* -------------------------------------------------- connect_api.Cursor
\* The cursor of the connect_api package has the attributes of the dbapi
\* cursor and the same _clear_state, _fetch_more_data, fetchone, fetchmany and
\* close; its execute and fetchall differ.
QUERY_STATE_FINISHED == {"Completed"}
QUERY_STATE_FAILED == {"Failed"}

\* connect_api Cursor.execute: out is the outcome of submit_query; the answer
\* for a query that failed carries the status and no rows or metadata
ConnectApiExecute(c0, s, out) ==
    IF CheckClosed(c0) # "none"
    THEN [c |-> c0, err |-> CheckClosed(c0), submits |-> 0]
    ELSE LET c == [ClearState(c0) EXCEPT !.reqs = 0, !.oors = 0]
             failed == out \in FailedStatuses
             r == Response(s, 0, 0, TRUE)
             query_state == Upper(IF failed THEN out ELSE r.state)
         IN  IF out = "ApiError"
             THEN [c |-> c, err |-> "OperationalError", submits |-> 1]
             ELSE IF out \in {"AuthenticationError", "QueryError"}
             THEN [c |-> c, err |-> out, submits |-> 1]
             ELSE IF out = "no queryId"
             THEN [c |-> c, err |-> "InterfaceError", submits |-> 1]
             ELSE IF query_state \in QUERY_STATE_FAILED
             THEN [c |-> [c EXCEPT !._query_id = FailedQueryId],
                   err |-> "QueryError", submits |-> 1]
             ELSE LET desc == IF failed THEN NoDescription
                              ELSE ParseDescription(s)
                      buf == IF failed THEN <<>>
                             ELSE DataToTuples(r.ids, r.shape, desc)
                      returned_rows == IF failed THEN 0 ELSE r.returnedRows
                      fin == query_state \in QUERY_STATE_FINISHED
                  IN  [c |-> [c EXCEPT !._query_id = IF failed
                                                    THEN FailedQueryId
                                                    ELSE QueryId,
                                       !._description = desc,
                                       !._rows_buffer = buf,
                                       !._next_offset = returned_rows,
                                       !._query_finished = fin,
                                       !._rowcount = IF fin THEN Len(buf) ELSE -1],
                       err |-> "none", submits |-> 1]

\* connect_api Cursor.fetchall: the query id is tested before the closed
\* check
ConnectApiFetchAll(c, s) ==
    IF c._query_id = NoQueryId
    THEN Fetched(c, <<>>, FALSE,
                 IF c._connection = NoConnection
                 THEN "AttributeError" ELSE "InternalError",
                 FALSE)
    ELSE IF CheckClosed(c) # "none"
    THEN Fetched(c, <<>>, FALSE, CheckClosed(c), FALSE)
    ELSE FetchAllLoop([c EXCEPT !._row_index = Len(c._rows_buffer)], s,
                      SubSeq(c._rows_buffer, c._row_index + 1,
                             Len(c._rows_buffer)),
                      FALSE)

\* cursor.execute(sql) on a connect_api cursor
CaExecuteOn(outs) ==
    /\ \E out \in outs :
          \E e \in {ConnectApiExecute(Cur, srv, out)} :
              /\ SetCur(e.c)
              /\ lastOp' = [NoOp EXCEPT !.op = "execute", !.err = e.err,
                                        !.wasFinished = _query_finished,
                                        !.executed = e.err = "none",
                                        !.status = SubmitStatus(Cur, srv, out),
                                        !.submits = e.submits]
    /\ UNCHANGED <<srv, authVars, legacyVars>>

\* cursor.execute(sql) on a connect_api cursor, answered by the query service
CaExecute ==
    CaExecuteOn(SubmitOutcomes)

\* the same, or failing in the client with any of its errors
CaExecuteAny ==
    CaExecuteOn(SubmitOutcomes \cup ClientErrors)

\* cursor.fetchall() on a connect_api cursor
CaFetchAll ==
    /\ reqs < MaxReqs
    /\ \E f \in {ConnectApiFetchAll(Cur, srv)} :
           /\ SetCur(f.c)
           /\ lastOp' = Op("fetchall", f, _query_finished)
    /\ UNCHANGED <<srv, authVars, legacyVars>>

\* ------------------------------------------- legacy SalesforceCDPCursor
\* the legacy cursor as one record, for the operators below
Leg ==
    [data |-> data, has_next |-> has_next, next_batch_id |-> next_batch_id,
     has_result |-> has_result, closed |-> closed, reqs |-> reqs]

SetLeg(l) ==
    /\ data' = l.data
    /\ has_next' = l.has_next
    /\ next_batch_id' = l.next_batch_id
    /\ has_result' = l.has_result
    /\ closed' = l.closed
    /\ reqs' = l.reqs

RECURSIVE RowsBefore(_, _)
\* the number of rows in the batches before batch i
RowsBefore(b, i) ==
    IF i <= 1 THEN 0 ELSE RowsBefore(b, i - 1) + b[i - 1]

\* QueryResultParser.parse_result of batch i of the result set: the last
\* batch says done, every other one carries the id of the next batch
Batch(b, i) ==
    [data |-> [k \in 1..b[i] |-> ListRow(RowsBefore(b, i) + k)],
     has_next |-> i < Len(b),
     next_batch_id |-> IF i < Len(b) THEN i + 1 ELSE NoBatchId]

\* the result of a legacy fetch operation; after counts the batch requests
\* made after a zero-row batch was received
LFetched(l, rows, none, err, empty, after) ==
    [l |-> l, rows |-> rows, none |-> none, err |-> err, empty |-> empty,
     after |-> after]

\* SalesforceCDPCursor.execute: out is what QuerySubmitter.execute answers
LExecute(l, b, out) ==
    IF l.closed
    THEN [l |-> l, err |-> "Error"]
    ELSE IF out # "ok"
    THEN [l |-> l, err |-> "Error"]
    ELSE LET r == Batch(b, 1)
         IN  [l |-> [l EXCEPT !.data = r.data, !.has_next = r.has_next,
                              !.next_batch_id = r.next_batch_id,
                              !.has_result = TRUE, !.reqs = 0],
              err |-> "none"]

\* SalesforceCDPCursor.fetchall, lines 59-66: the loop over the batches
RECURSIVE LFetchAllLoop(_, _, _, _)
LFetchAllLoop(l, b, empty, after) ==
    IF l.has_next
    THEN LET r == Batch(b, l.next_batch_id)
         IN  LFetchAllLoop([l EXCEPT !.has_next = r.has_next,
                                     !.next_batch_id = r.next_batch_id,
                                     !.data = @ \o r.data,
                                     !.reqs = @ + 1],
                           b, empty \/ r.data = <<>>,
                           IF empty THEN after + 1 ELSE after)
    ELSE LFetched([l EXCEPT !.has_result = FALSE], l.data, FALSE, "none",
                  empty, after)

\* SalesforceCDPCursor.fetchall
LFetchAll(l, b) ==
    IF ~l.has_result \/ l.closed
    THEN LFetched(l, <<>>, FALSE, "Error", FALSE, 0)
    ELSE LFetchAllLoop(l, b, FALSE, 0)

\* SalesforceCDPCursor.fetchone
LFetchOne(l, b) ==
    IF ~l.has_result \/ l.closed
    THEN LFetched(l, <<>>, FALSE, "Error", FALSE, 0)
    ELSE IF Len(l.data) > 0
    THEN LFetched([l EXCEPT !.data = Tail(@)], <<Head(l.data)>>, FALSE,
                  "none", FALSE, 0)
    ELSE IF l.has_next
    THEN LET r == Batch(b, l.next_batch_id)
             l1 == [l EXCEPT !.data = r.data, !.has_next = r.has_next,
                             !.next_batch_id = r.next_batch_id,
                             !.reqs = @ + 1]
         IN  IF r.data = <<>>
             THEN \* line 89: pop from an empty list
                  LFetched(l1, <<>>, FALSE, "IndexError", TRUE, 0)
             ELSE LFetched([l1 EXCEPT !.data = Tail(@)], <<Head(r.data)>>,
                           FALSE, "none", FALSE, 0)
    ELSE LFetched([l EXCEPT !.has_result = FALSE], <<>>, TRUE, "none", FALSE, 0)

\* SalesforceCDPCursor.fetchmany, lines 104-109: the loop
RECURSIVE LFetchManyLoop(_, _, _, _)
LFetchManyLoop(l, b, size, result_) ==
    IF size <= 0
    THEN LFetched(l, result_, FALSE, "none", FALSE, 0)
    ELSE LET f == LFetchOne(l, b)
         IN  IF f.err # "none"
             THEN f
             ELSE IF f.none
             THEN LFetched(f.l, result_, FALSE, "none", FALSE, 0)
             ELSE LFetchManyLoop(f.l, b, size - 1, result_ \o f.rows)

\* fetchone() called again and again until it returns None or raises
RECURSIVE FetchOneUntilNone(_, _, _)
FetchOneUntilNone(l, b, rows) ==
    LET f == LFetchOne(l, b)
    IN  IF f.err # "none" \/ f.none
        THEN [rows |-> rows, err |-> f.err]
        ELSE FetchOneUntilNone(f.l, b, rows \o f.rows)

\* what the last operation on the legacy cursor did
LOp(name, f) ==
    [op |-> name, rows |-> f.rows, none |-> f.none, err |-> f.err,
     empty |-> f.empty, wasFinished |-> ~has_next,
     nth |-> Min(lastOp.nth + 1, 2), more |-> FALSE, after |-> f.after,
     executed |-> lastOp.executed]

\* cursor.execute(query): out is what QuerySubmitter.execute answers
LegacyExecute ==
    /\ \E out \in {"ok", "Error"} :
          LET e == LExecute(Leg, batches, out)
          IN  /\ SetLeg(e.l)
              /\ lastOp' = [NoOp EXCEPT !.op = "execute", !.err = e.err,
                                        !.executed = IF closed
                                                     THEN lastOp.executed
                                                     ELSE e.err = "none"]
    /\ UNCHANGED <<batches, authVars, cursorVars>>

\* cursor.fetchone()
LegacyFetchOne ==
    /\ LET f == LFetchOne(Leg, batches)
       IN  /\ SetLeg(f.l)
           /\ lastOp' = LOp("fetchone", f)
    /\ UNCHANGED <<batches, authVars, cursorVars>>

\* cursor.fetchmany(size) and cursor.fetchmany() with arraysize = 1
LegacyFetchMany ==
    /\ \E size \in 0..MaxBatchRows :
          LET f == LFetchManyLoop(Leg, batches, size, <<>>)
          IN  /\ SetLeg(f.l)
              /\ lastOp' = LOp("fetchmany", f)
    /\ UNCHANGED <<batches, authVars, cursorVars>>

\* cursor.fetchall()
LegacyFetchAll ==
    /\ LET f == LFetchAll(Leg, batches)
       IN  /\ SetLeg(f.l)
           /\ lastOp' = LOp("fetchall", f)
    /\ UNCHANGED <<batches, authVars, cursorVars>>

\* cursor.close()
LegacyClose ==
    /\ closed' = TRUE
    /\ lastOp' = [NoOp EXCEPT !.op = "close", !.executed = lastOp.executed]
    /\ UNCHANGED <<data, has_next, next_batch_id, has_result, reqs, batches,
                   authVars, cursorVars>>

\* ------------------------------ the description of the legacy cursor
\* the metadata that the batches of a result set carry, batch by batch: the
\* columns in either order
MetadataLists(n) ==
    [1..n -> {Columns, KeyOrder}]

\* a result set whose batches carry the given metadata, before execute()
Described(metadata) ==
    [op |-> "none", metadata |-> metadata, rows |-> <<>>, err |-> "none"]

\* the variables of the dbapi cursor other than its description
cursorRest == <<_query_id, _rows_buffer, _row_index, _next_offset,
                _query_finished, _rowcount, _is_closed, _connection,
                connection_is_closed, arraysize, srv, oors>>

\* cursor.execute(query), lines 44-50: description is the one parsed from the
\* first batch
LegacyDescribedExecute ==
    /\ \E e \in {LExecute(Leg, batches, "ok")} :
          /\ SetLeg(e.l)
          /\ _description' = IF e.err = "none" THEN lastOp.metadata[1]
                                               ELSE _description
          /\ lastOp' = [lastOp EXCEPT !.op = "execute", !.err = e.err,
                                      !.rows = <<>>]
    /\ UNCHANGED <<batches, authVars, cursorRest>>

\* cursor.fetchone(), lines 82-88: description is the one parsed from the
\* batch that was requested (batch reqs + 1 after reqs requests)
LegacyDescribedFetchOne ==
    /\ \E f \in {LFetchOne(Leg, batches)} :
          /\ SetLeg(f.l)
          /\ _description' = IF f.l.reqs > reqs
                             THEN lastOp.metadata[f.l.reqs + 1]
                             ELSE _description
          /\ lastOp' = [lastOp EXCEPT !.op = "fetchone", !.err = f.err,
                                      !.rows = f.rows]
    /\ UNCHANGED <<batches, authVars, cursorRest>>

\* cursor.fetchall(), lines 59-66: description is the one parsed from the
\* last batch that was requested
LegacyDescribedFetchAll ==
    /\ \E f \in {LFetchAll(Leg, batches)} :
          /\ SetLeg(f.l)
          /\ _description' = IF f.l.reqs > reqs
                             THEN lastOp.metadata[f.l.reqs + 1]
                             ELSE _description
          /\ lastOp' = [lastOp EXCEPT !.op = "fetchall", !.err = f.err,
                                      !.rows = f.rows]
    /\ UNCHANGED <<batches, authVars, cursorRest>>

\* --------------------------------------------------- query_submitter.py
\* the HTTP status codes that the query endpoint answers with
StatusCodes == {200, 400, 401, 404, 500, 503}

\* str(status_code)
StatusText(status_code) ==
    CASE status_code = 200 -> "200"
      [] status_code = 400 -> "400"
      [] status_code = 401 -> "401"
      [] status_code = 404 -> "404"
      [] status_code = 500 -> "500"
      [] status_code = 503 -> "503"

\* the value of the 'message' key of a JSON body: a text, None, or no key
NoKey == "<no key>"
PyNone == "None"
Messages == {"Invalid query", "Unauthorized"}

\* response bodies: json says whether response.json() can decode the text
Bodies ==
    {[json |-> TRUE, message |-> m, text |-> "{...}"] :
         m \in Messages \cup {PyNone, NoKey}}
        \cup {[json |-> FALSE, message |-> NoKey, text |-> t] :
                  t \in {"", "no healthy upstream", "<html>Bad Gateway</html>"}}

Responses == [status_code : StatusCodes, body : Bodies]

\* the outcome of a call: the exception raised ("none" when it returns), the
\* parts of its message and the value returned
Raises(kind, message) ==
    [raised |-> kind, message |-> message, returned |-> NoKey]

Returns(body) ==
    [raised |-> "none", message |-> <<>>, returned |-> body.text]

\* the try / finally of lines 85-91 and 104-110: response.json() raises
\* JSONDecodeError on a body that is not JSON and error_json['message'] raises
\* KeyError without the key; in both cases error_message is unbound when the
\* finally block reads it, and the UnboundLocalError raised there replaces the
\* exception in flight
ErrorOf(sql_response) ==
    IF ~sql_response.body.json \/ sql_response.body.message = NoKey
    THEN Raises("UnboundLocalError",
               <<"local variable 'error_message' referenced before assignment">>)
    ELSE IF sql_response.body.message # PyNone
         THEN Raises("Error", <<"Failed executing query in server : ",
                               sql_response.body.message>>)
         ELSE Raises("Error", <<"Failed executing query in server">>)

\* an error that reports the status code and the text of the body when the
\* body has no message to report
ErrorOf_WithStatusAndText(sql_response) ==
    IF ~sql_response.body.json \/ sql_response.body.message = NoKey
    THEN Raises("Error", <<"Failed executing query in server : status=",
                          StatusText(sql_response.status_code), " ",
                          sql_response.body.text>>)
    ELSE ErrorOf(sql_response)

\* QuerySubmitter._get_query_results on the response of the POST
GetQueryResults(sql_response) ==
    IF sql_response.status_code # 200
    THEN ErrorOf(sql_response)
    ELSE IF sql_response.body.json
         THEN Returns(sql_response.body)
         ELSE Raises("JSONDecodeError", <<"Expecting value">>)

\* QuerySubmitter._get_next_batch_results on the response of the GET: the
\* body is decoded at line 102, before the status code is looked at
GetNextBatchResults(sql_response) ==
    IF ~sql_response.body.json
    THEN Raises("JSONDecodeError", <<"Expecting value">>)
    ELSE IF sql_response.status_code # 200
         THEN ErrorOf(sql_response)
         ELSE Returns(sql_response.body)

\* the response that has arrived for a request
Answered(sql_response) ==
    [op |-> "none", sql_response |-> sql_response,
     outcome |-> Returns([text |-> NoKey])]

\* QuerySubmitter._get_query_results(query, instance_url, token)
SubmitterGetQueryResults ==
    /\ lastOp.op = "none"
    /\ lastOp' = [lastOp EXCEPT
                     !.op = "_get_query_results",
                     !.outcome = GetQueryResults(lastOp.sql_response)]
    /\ reqs' = reqs + 1
    /\ UNCHANGED <<authVars, cursorVars, legacyVars>>

\* QuerySubmitter._get_next_batch_results(next_batch_id, instance_url, token)
SubmitterGetNextBatchResults ==
    /\ lastOp.op = "none"
    /\ lastOp' = [lastOp EXCEPT
                     !.op = "_get_next_batch_results",
                     !.outcome = GetNextBatchResults(lastOp.sql_response)]
    /\ reqs' = reqs + 1
    /\ UNCHANGED <<authVars, cursorVars, legacyVars>>

\* ------------------------------------------------------------ types.py
\* the PEP 249 type objects of types.py, lines 7-11, and the other Python
\* types in the table
STRING_ == "str"
NUMBER == "decimal.Decimal"
DATETIME == "datetime"

\* SALESFORCE_TYPE_MAP, lines 17-38: the keys are type names in upper case
SALESFORCE_TYPE_MAP ==
    [w \in {"TEXT", "STRING", "ID", "URL", "EMAIL", "PHONE", "PICKLIST",
            "MULTIPICKLIST", "TEXTAREA"} |-> STRING_]
    @@ ("BOOLEAN" :> "bool") @@ ("NUMBER" :> NUMBER) @@ ("INTEGER" :> "int")
    @@ ("LONG" :> "int") @@ ("DOUBLE" :> "float") @@ ("CURRENCY" :> NUMBER)
    @@ ("PERCENT" :> NUMBER) @@ ("DATE" :> DATETIME)
    @@ ("DATETIME" :> DATETIME) @@ ("TIME" :> DATETIME)

\* the type names of the remote schema: a word, here written in upper case,
\* in one of three letter cases (VARCHAR, varchar, Varchar); NONE is
\* str(None), GEOGRAPHY and JSON are names that no table holds
TypeWords ==
    DOMAIN SALESFORCE_TYPE_MAP
        \cup {"VARCHAR", "CHAR", "DECIMAL", "TIMESTAMP", "GEOGRAPHY", "JSON",
               "NONE"}

TypeNames ==
    [word : TypeWords, letters : {"upper", "lower", "mixed"}]

\* str.upper() of a type name
UpperName(type_name) ==
    [type_name EXCEPT !.letters = "upper"]

\* get_type_object: dict.get(key, STRING) on the upper-cased name
GetTypeObject(salesforce_type_name) ==
    LET key == UpperName(salesforce_type_name)
    IN  IF key.letters = "upper" /\ key.word \in DOMAIN SALESFORCE_TYPE_MAP
        THEN SALESFORCE_TYPE_MAP[key.word]
        ELSE STRING_

\* the type name of a column that _parse_description is about to map
Column(type_name) ==
    [op |-> "none", type_name |-> type_name, type_code |-> "none"]

\* get_type_object(type_name), called by _parse_description for a column
DbGetTypeObject ==
    /\ lastOp.op = "none"
    /\ lastOp' = [lastOp EXCEPT !.op = "get_type_object",
                                !.type_code = GetTypeObject(lastOp.type_name)]
    /\ UNCHANGED <<reqs, authVars, cursorVars, legacyVars>>

\* ------------------------------------------------- keyed rows of a page
\* the keyed rows that a page can hold: the pairs of a dict in the order of
\* the payload, over the column names, any of which can be missing
KeyedRows ==
    {r \in UNION {[1..k -> [key : {"a", "b"}, value : 1..MaxValue]] : k \in 0..2} :
        \A i, j \in 1..Len(r) : r[i].key = r[j].key => i = j}

\* the pages of keyed rows
KeyedPages ==
    UNION {[1..k -> KeyedRows] : k \in 1..MaxPageRows}

\* list(row.keys())
Keys(row) ==
    [i \in 1..Len(row) |-> row[i].key]

\* row.get(key): None when the key is missing
Get(row, key) ==
    IF \E i \in 1..Len(row) : row[i].key = key
    THEN row[CHOOSE i \in 1..Len(row) : row[i].key = key].value
    ELSE Null

\* a conversion of keyed rows that takes the keys in the order of each row
KeyedToTuples_PayloadOrder(page, description) ==
    [i \in 1..Len(page) |->
        [j \in 1..Len(page[i]) |-> page[i][j].value]]

\* Cursor._data_to_tuples, lines 278-287: a page of keyed rows
KeyedToTuples(page, description) ==
    LET ordered_keys == IF description = NoDescription
                        THEN Keys(page[1])
                        ELSE description
    IN  [i \in 1..Len(page) |->
            [j \in 1..Len(ordered_keys) |-> Get(page[i], ordered_keys[j])]]

\* the page that a cursor is about to convert
Arrived(page) ==
    [op |-> "none", page |-> page, tuples |-> <<>>]

\* cursor._data_to_tuples(page), for the page that arrived
DbDataToTuples ==
    /\ lastOp.op = "none"
    /\ lastOp' = [lastOp EXCEPT !.op = "_data_to_tuples",
                                !.tuples = KeyedToTuples(lastOp.page,
                                                         _description)]
    /\ UNCHANGED <<reqs, authVars, cursorVars, legacyVars>>

\* ------------------------------------- query parameters (legacy cursor)
\* the characters of queries and of string parameters
Placeholder == "?"
QuoteChar == "'"
DoubleQuote == "\""
Backslash == "\\"
Newline == "\n"
Return == "\r"

\* queries: text with '?' placeholders
Queries ==
    UNION {[1..k -> {"x", Placeholder}] : k \in 0..MaxQueryLen}

\* str values: text with the characters that are escaped, and with '?'
Strings ==
    UNION {[1..k -> {"a", QuoteChar, Backslash, Newline, Return, Placeholder}] :
               k \in 0..MaxStrLen}

\* parameter values: None, an int, a str
Values ==
    {[t |-> "None", n |-> 0, s |-> <<>>], [t |-> "int", n |-> 5, s |-> <<>>],
     [t |-> "int", n |-> 12, s |-> <<>>]}
        \cup {[t |-> "str", n |-> 0, s |-> w] : w \in Strings}

\* the params argument of execute: None, one value that is not iterable, or
\* a list of values
Params ==
    {[k |-> "None", v |-> <<>>]}
        \cup {[k |-> "scalar", v |-> <<x>>] : x \in {y \in Values : y.t = "int"}}
        \cup {[k |-> "list", v |-> v] :
                  v \in UNION {[1..k -> Values] : k \in 0..MaxParams}}

\* str(n) of an int that is not negative
RECURSIVE Decimal(_)
Decimal(n) ==
    LET digit(d) == <<"0", "1", "2", "3", "4", "5", "6", "7", "8", "9">>[d + 1]
    IN  IF n < 10 THEN <<digit(n)>> ELSE Decimal(n \div 10) \o <<digit(n % 10)>>

\* the concatenation of the texts f(w[1]), f(w[2]), ...
RECURSIVE Concat(_, _)
Concat(f(_), w) ==
    IF w = <<>> THEN <<>> ELSE f(Head(w)) \o Concat(f, Tail(w))

\* str.translate(_TRANSLATION_TABLE): the raw strings of lines 19-22
TranslateChar(ch) ==
    CASE ch = Backslash -> <<Backslash, Backslash>>
      [] ch = Newline -> <<Backslash, Backslash, "n">>
      [] ch = Return -> <<Backslash, Backslash, "r">>
      [] ch = QuoteChar -> <<Backslash, QuoteChar>>
      [] OTHER -> <<ch>>

Translate(w) ==
    Concat(TranslateChar, w)

\* repr() of a str: in double quotes when it holds a single quote
ReprStr(w) ==
    LET q == IF \E i \in 1..Len(w) : w[i] = QuoteChar
             THEN DoubleQuote ELSE QuoteChar
        reprChar(ch) ==
            CASE ch = Backslash -> <<Backslash, Backslash>>
              [] ch = Newline -> <<Backslash, "n">>
              [] ch = Return -> <<Backslash, "r">>
              [] OTHER -> <<ch>>
    IN  <<q>> \o Concat(reprChar, w) \o <<q>>

\* repr() of a value
Repr(x) ==
    CASE x.t = "None" -> <<"N", "o", "n", "e">>
      [] x.t = "int" -> Decimal(x.n)
      [] x.t = "str" -> ReprStr(x.s)

\* str() of a list of values
RECURSIVE ReprItems(_)
ReprItems(v) ==
    IF v = <<>> THEN <<>>
    ELSE IF Len(v) = 1 THEN Repr(v[1])
    ELSE Repr(v[1]) \o <<",", " ">> \o ReprItems(Tail(v))

StrOfList(v) ==
    <<"[">> \o ReprItems(v) \o <<"]">>

\* query.count('?')
RECURSIVE Count(_)
Count(query) ==
    IF query = <<>> THEN 0
    ELSE (IF Head(query) = Placeholder THEN 1 ELSE 0) + Count(Tail(query))

\* query.replace('?', text, 1): the first '?' of the text as it is now
RECURSIVE ReplaceFirst(_, _)
ReplaceFirst(query, text) ==
    IF query = <<>> THEN <<>>
    ELSE IF Head(query) = Placeholder THEN text \o Tail(query)
    ELSE <<Head(query)>> \o ReplaceFirst(Tail(query), text)

\* the text in quotes, lines 174-177
Quoted(text) ==
    <<QuoteChar>> \o Translate(text) \o <<QuoteChar>>

\* SalesforceCDPCursor._replace_next_param for a value
ReplaceNextParam(query, x) ==
    CASE x.t = "None" -> ReplaceFirst(query, <<"n", "u", "l", "l">>)
      [] x.t = "int" -> ReplaceFirst(query, Decimal(x.n))
      [] x.t = "str" -> ReplaceFirst(query, Quoted(x.s))

\* lines 159-160: the loop over the parameters
RECURSIVE ReplaceAll(_, _)
ReplaceAll(query, v) ==
    IF v = <<>> THEN query
    ELSE ReplaceAll(ReplaceNextParam(query, Head(v)), Tail(v))

\* SalesforceCDPCursor._resolve_query_with_params: the resolved query, or
\* the exception
ResolveQueryWithParams(query, params) ==
    LET params_count_from_query == Count(query)
    IN  IF params.k = "None" /\ params_count_from_query = 0
        THEN [err |-> "none", query |-> query]
        ELSE IF params.k = "list" /\ params_count_from_query = Len(params.v)
        THEN [err |-> "none", query |-> ReplaceAll(query, params.v)]
        ELSE IF params_count_from_query = 1 /\ params.k # "None"
        THEN [err |-> "none",
              query |-> IF params.k = "list"
                        THEN ReplaceFirst(query, Quoted(StrOfList(params.v)))
                        ELSE ReplaceNextParam(query, params.v[1])]
        ELSE [err |-> "Exception", query |-> <<>>]

\* the call execute(query, params) that a caller is about to make
Call(query, params) ==
    [op |-> "none", err |-> "none", query |-> query, params |-> params,
     submits |-> 0, submitted |-> <<>>, executed |-> FALSE]

\* cursor.execute(query, params) of the legacy cursor, for the query and the
\* parameters of the caller: out is what QuerySubmitter.execute answers;
\* submitted is the query that it was given
LegacyExecuteParams ==
    /\ \E out \in {"ok", "Error"} :
          \E r \in {ResolveQueryWithParams(lastOp.query, lastOp.params)} :
              \E e \in {IF ~closed /\ r.err # "none"
                         THEN [l |-> Leg, err |-> r.err]
                         ELSE LExecute(Leg, batches, out)} :
                  /\ SetLeg(e.l)
                  /\ lastOp' = [Call(lastOp.query, lastOp.params)
                                   EXCEPT !.op = "execute", !.err = e.err,
                                          !.submits = IF closed \/ r.err # "none"
                                                      THEN 0 ELSE 1,
                                          !.submitted = IF closed \/ r.err # "none"
                                                        THEN <<>> ELSE r.query,
                                          !.executed = IF closed
                                                       THEN lastOp.executed
                                                       ELSE e.err = "none"]
    /\ UNCHANGED <<batches, authVars, cursorVars>>

\* ------------------------------------------------ unsupported operations
\* what an unsupported operation did: the error it raised, or "none" when it
\* returned
Unsupported(name, err) ==
    [NoOp EXCEPT !.op = name, !.err = err, !.executed = lastOp.executed]

\* SalesforceCDPConnection.rollback: the body is pass
LegacyConnectionRollback ==
    /\ lastOp' = Unsupported("connection.rollback", "none")
    /\ UNCHANGED <<reqs, authVars, cursorVars, legacyVars>>

\* SalesforceCDPCursor.rollback: the body is pass
LegacyCursorRollback ==
    /\ lastOp' = Unsupported("cursor.rollback", "none")
    /\ UNCHANGED <<reqs, authVars, cursorVars, legacyVars>>

\* dbapi Connection.rollback
DbRollback ==
    /\ lastOp' = Unsupported("connection.rollback",
                             IF connection_is_closed
                             THEN "Error" ELSE "NotSupportedError")
    /\ UNCHANGED <<reqs, authVars, cursorVars, legacyVars>>

\* dbapi Cursor.callproc
DbCallproc ==
    /\ lastOp' = Unsupported("cursor.callproc",
                             IF CheckClosed(Cur) # "none"
                             THEN CheckClosed(Cur) ELSE "NotSupportedError")
    /\ UNCHANGED <<reqs, authVars, cursorVars, legacyVars>>

\* ------------------------------------------------------------ initial states
\* Cursor.__init__
CursorNew ==
    /\ _query_id = NoQueryId
    /\ _description = NoDescription
    /\ _rows_buffer = <<>>
    /\ _row_index = 0
    /\ _next_offset = 0
    /\ _query_finished = TRUE
    /\ _rowcount = -1
    /\ _is_closed = FALSE
    /\ _connection = TheConnection
    /\ connection_is_closed = FALSE
    /\ oors = 0

\* SalesforceCDPCursor.__init__
LegacyNew ==
    /\ data = <<>>
    /\ has_next = FALSE
    /\ next_batch_id = NoBatchId
    /\ has_result = FALSE
    /\ closed = FALSE

\* no cursor is in use
NoCursor ==
    /\ CursorNew /\ arraysize = 1 /\ srv = NoServer
    /\ LegacyNew /\ batches = <<0>>
    /\ reqs = 0 /\ lastOp = NoOp

\* no token is requested
NoAuth ==
    /\ now = 0
    /\ component = "cursor"
    /\ exchange_token = NoToken /\ instance_url = NoUrl
    /\ token_expiry_time = NoTime /\ lastExp = NoTime
    /\ _token = NoToken /\ _instance_url = NoUrl
    /\ _token_created_at = NoTime /\ nTok = 0
    /\ lock = 0
    /\ max_retries = MAX_RETRY_COUNT
    /\ handler = "password"
    /\ _token_timeout = 1
    /\ _base_api_path = NoUrl
    /\ pc = [t \in Threads |-> "idle"]
    /\ loc = [t \in Threads |-> NoLoc]
    /\ result = [t \in Threads |-> NoResult]
    /\ calls = 0

\* A helper or handler that has just been constructed, or that holds a session
\* obtained by an earlier request (token 1, issued at time 0, one tick of
\* validity left).
AuthInit(comps, retries) ==
    /\ now = 0
    /\ component \in comps
    /\ handler \in IF component = "handler"
                   THEN {"password", "client_credentials"}
                   ELSE {"password"}
    /\ \E held \in BOOLEAN :
          /\ exchange_token = IF held /\ component = "helper" THEN 1 ELSE NoToken
          /\ instance_url = IF held /\ component = "helper" THEN UrlOf(1) ELSE NoUrl
          /\ token_expiry_time = IF held /\ component = "helper" THEN 1 ELSE NoTime
          /\ lastExp = IF held /\ component = "helper" THEN 1 ELSE NoTime
          /\ _token = IF held /\ component = "handler" THEN 1 ELSE NoToken
          /\ _instance_url = IF held /\ component = "handler"
                             THEN IF handler = "password" THEN UrlOf(1) ELSE DomainUrl
                             ELSE NoUrl
          /\ _token_created_at = IF held /\ component = "handler" THEN 0 ELSE NoTime
          /\ nTok = IF held THEN 1 ELSE 0
    /\ lock = 0
    /\ max_retries \in retries
    /\ _token_timeout \in IF component = "handler" THEN ExpiresIn ELSE {1}
    /\ _base_api_path = NoUrl
    /\ pc = [t \in Threads |-> "idle"]
    /\ loc = [t \in Threads |-> NoLoc]
    /\ result = [t \in Threads |-> NoResult]
    /\ calls = 0
    /\ NoCursor

vars == <<authVars, cursorVars, legacyVars, histVars>>

HelperInit == AuthInit({"helper"}, {MAX_RETRY_COUNT})

HelperNext ==
    \/ \E t \in Threads : HelperStep(t)
    \/ Tick

\* several threads share one AuthenticationHelper
SpecHelper == HelperInit /\ [][HelperNext]_vars

\* a connection with a refresh token, with or without a core token, and no
\* session yet
RefreshInit ==
    /\ now = 0
    /\ component = "refresh"
    /\ exchange_token = NoToken /\ instance_url = NoUrl
    /\ token_expiry_time = NoTime /\ lastExp = NoTime
    /\ _token = NoToken /\ _instance_url = NoUrl
    /\ _token_created_at = NoTime /\ nTok = 0
    /\ lock = 0
    /\ max_retries \in 1..MaxRetries
    /\ handler \in {RefreshToken, RefreshAndCoreToken}
    /\ _token_timeout = 1
    /\ _base_api_path = NoUrl
    /\ pc = [t \in Threads |-> "idle"]
    /\ loc = [t \in Threads |-> NoLoc]
    /\ result = [t \in Threads |-> NoResult]
    /\ calls = 0
    /\ CursorNew /\ arraysize = 1 /\ srv = NoServer
    /\ LegacyNew /\ batches = <<0>>
    /\ reqs = 0 /\ lastOp = NoRevocation

RefreshNext ==
    \/ \E t \in SerialThreads : RefreshStep(t)
    \/ (\A t \in Threads : pc[t] = "idle") /\ Tick

\* one caller of the helper of a connection with a refresh token; the posts
\* to the revocation endpoint can fail
SpecRefresh == RefreshInit /\ [][RefreshNext]_vars

\* the steps of get_token() that follow its entry, but for lock.acquire()
HelperInside(t) ==
    \/ FastReturn(t)
    \/ LockedCheck(t)
    \/ CorePost(t)
    \/ ExchangePost(t)
    \/ WriteToken(t)
    \/ WriteExpiry(t)
    \/ WriteUrl(t)
    \/ Sleep(t)

\* the scheduler is fair: a thread that can take a step of get_token() takes
\* it in the end, every post is answered or fails, and a thread that finds
\* the lock free again and again acquires it in the end
HelperFairness ==
    \A t \in Threads : SF_vars(Acquire(t)) /\ WF_vars(HelperInside(t))

\* the calls are short: the clock does not move while the threads contend
HelperFairNext ==
    \E t \in Threads : HelperStep(t)

\* several threads share one AuthenticationHelper, under a fair scheduler
SpecHelperFair == HelperInit /\ [][HelperFairNext]_vars /\ HelperFairness

HandlerInit == AuthInit({"handler"}, {MAX_RETRY_COUNT})

HandlerNext ==
    \/ \E t \in Threads : HandlerStep(t)
    \/ Tick

\* several threads (cursors of one connection) share one auth handler
SpecHandler == HandlerInit /\ [][HandlerNext]_vars

\* max_retries is a parameter of the connection, stored as it is given; the
\* handlers have no such parameter
SerialInit ==
    /\ AuthInit({"helper", "handler"}, 1..MaxRetries)
    /\ component = "handler" => max_retries = MAX_RETRY_COUNT

SerialNext ==
    \/ \E t \in SerialThreads : HelperStep(t)
    \/ \E t \in SerialThreads : HandlerStep(t)
    \/ (\A t \in Threads : pc[t] = "idle") /\ Tick

\* one caller issues its token requests one after the other; a request is
\* short compared with the lifetime of a token
SpecSerial == SerialInit /\ [][SerialNext]_vars

CursorInit ==
    /\ NoAuth
    /\ CursorNew
    /\ arraysize \in 1..MaxArraysize
    /\ srv \in Servers
    /\ LegacyNew /\ batches = <<0>>
    /\ reqs = 0 /\ lastOp = NoOp

CursorNext ==
    \/ DbExecute
    \/ DbFetchOne
    \/ DbFetchMany
    \/ DbFetchAll
    \/ DbFetchMoreData
    \/ DbClose

\* one dbapi cursor, used by one thread, on a connection that stays open
SpecCursor == CursorInit /\ [][CursorNext]_vars

\* the query services of the specifications about closing: positional rows
\* with metadata, honest completion status
PlainServers ==
    {s \in Servers : s.shape = "list" /\ s.meta /\ s.stateStyle = "honest"}

ClosingInit ==
    /\ NoAuth
    /\ CursorNew
    /\ arraysize \in 1..MaxArraysize
    /\ srv \in PlainServers
    /\ LegacyNew /\ batches = <<0>>
    /\ reqs = 0 /\ lastOp = NoOp

ClosingNext ==
    \/ DbExecute
    \/ DbFetchOne
    \/ DbFetchMany
    \/ DbFetchAll
    \/ DbFetchMoreData
    \/ DbClose
    \/ DbConnectionClose

\* one dbapi cursor, used by one thread, and its connection, which the
\* thread may close at any time
SpecClosing == ClosingInit /\ [][ClosingNext]_vars

SubmitInit ==
    /\ NoAuth
    /\ CursorNew
    /\ arraysize \in 1..MaxArraysize
    /\ srv \in PlainServers
    /\ LegacyNew /\ batches = <<0>>
    /\ reqs = 0 /\ lastOp = NoOp

SubmitNext ==
    \/ DbExecuteAny
    \/ DbFetchOne
    \/ DbFetchMany
    \/ DbFetchAll
    \/ DbClose

\* one dbapi cursor on an open connection, whose execute() calls fail in
\* every way the client can fail
SpecSubmit == SubmitInit /\ [][SubmitNext]_vars

NoQueryIdNext ==
    \/ DbExecuteNoQueryId
    \/ DbFetchOne
    \/ DbFetchAll
    \/ DbClose

\* one dbapi cursor on an open connection; some answers to the submission
\* carry no queryId
SpecNoQueryId == SubmitInit /\ [][NoQueryIdNext]_vars

ExecuteManyNext ==
    \/ DbExecuteMany
    \/ DbExecute
    \/ DbFetchOne
    \/ DbFetchAll
    \/ DbClose

\* one dbapi cursor on an open connection that executes a query once per
\* parameter set
SpecExecuteMany == SubmitInit /\ [][ExecuteManyNext]_vars

ConnectApiSubmitNext ==
    \/ CaExecuteAny
    \/ DbFetchOne
    \/ DbFetchMany
    \/ CaFetchAll
    \/ DbClose

\* the same for one connect_api cursor
SpecConnectApiSubmit == SubmitInit /\ [][ConnectApiSubmitNext]_vars

\* the query services that say "Completed" for a query that is complete
CompletedServers ==
    {[s EXCEPT !.done = "Completed"] : s \in PlainServers}

ConnectApiInit ==
    /\ NoAuth
    /\ CursorNew
    /\ arraysize \in 1..MaxArraysize
    /\ srv \in CompletedServers
    /\ LegacyNew /\ batches = <<0>>
    /\ reqs = 0 /\ lastOp = NoOp

ConnectApiNext ==
    \/ CaExecute
    \/ DbFetchOne
    \/ DbFetchMany
    \/ CaFetchAll
    \/ DbFetchMoreData
    \/ DbClose

\* one connect_api cursor, used by one thread
SpecConnectApi == ConnectApiInit /\ [][ConnectApiNext]_vars

LegacyInit ==
    /\ NoAuth
    /\ CursorNew /\ arraysize = 1 /\ srv = NoServer
    /\ LegacyNew
    /\ batches \in BatchLists
    /\ reqs = 0 /\ lastOp = NoOp

LegacyNext ==
    \/ LegacyExecute
    \/ LegacyFetchOne
    \/ LegacyFetchMany
    \/ LegacyFetchAll
    \/ LegacyClose

\* one legacy cursor, used by one thread
SpecLegacy == LegacyInit /\ [][LegacyNext]_vars

LegacyDescriptionInit ==
    /\ NoAuth
    /\ CursorNew /\ arraysize = 1 /\ srv = NoServer
    /\ LegacyNew
    /\ batches \in BatchLists
    /\ reqs = 0
    /\ lastOp \in {Described(m) : m \in MetadataLists(Len(batches))}

LegacyDescriptionNext ==
    \/ LegacyDescribedExecute
    \/ LegacyDescribedFetchOne
    \/ LegacyDescribedFetchAll

\* one legacy cursor and its description
SpecLegacyDescription ==
    LegacyDescriptionInit /\ [][LegacyDescriptionNext]_vars

\* a cursor after an execute() whose first page was empty, with or without
\* metadata, and a page of keyed rows
TuplesInit ==
    /\ NoAuth
    /\ _query_id = QueryId
    /\ _description \in {Columns, NoDescription}
    /\ _rows_buffer = <<>>
    /\ _row_index = 0
    /\ _next_offset = 0
    /\ _query_finished = FALSE
    /\ _rowcount = -1
    /\ _is_closed = FALSE
    /\ _connection = TheConnection
    /\ connection_is_closed = FALSE
    /\ oors = 0
    /\ arraysize = MaxPageRows /\ srv = NoServer
    /\ LegacyNew /\ batches = <<0>>
    /\ reqs = 0
    /\ lastOp \in {Arrived(page) : page \in KeyedPages}

TuplesNext ==
    DbDataToTuples

\* the conversion of one page of keyed rows
SpecTuples == TuplesInit /\ [][TuplesNext]_vars

SubmitterInit ==
    /\ NoAuth
    /\ CursorNew /\ arraysize = 1 /\ srv = NoServer
    /\ LegacyNew /\ batches = <<0>>
    /\ reqs = 0
    /\ lastOp \in {Answered(sql_response) : sql_response \in Responses}

SubmitterNext ==
    \/ SubmitterGetQueryResults
    \/ SubmitterGetNextBatchResults

\* QuerySubmitter on one response of the query endpoint
SpecSubmitter == SubmitterInit /\ [][SubmitterNext]_vars

TypesInit ==
    /\ NoAuth
    /\ CursorNew /\ arraysize = 1 /\ srv = NoServer
    /\ LegacyNew /\ batches = <<0>>
    /\ reqs = 0
    /\ lastOp \in {Column(type_name) : type_name \in TypeNames}

TypesNext ==
    DbGetTypeObject

\* the mapping of one remote type name
SpecTypes == TypesInit /\ [][TypesNext]_vars

ParamsInit ==
    /\ NoAuth
    /\ CursorNew /\ arraysize = 1 /\ srv = NoServer
    /\ LegacyNew
    /\ batches = <<1>>
    /\ reqs = 0
    /\ lastOp \in {Call(query, params) : query \in Queries, params \in Params}

ParamsNext ==
    LegacyExecuteParams

\* one legacy cursor that executes queries with parameters
SpecParams == ParamsInit /\ [][ParamsNext]_vars

LegacyRollbackNext ==
    \/ LegacyExecute
    \/ LegacyFetchOne
    \/ LegacyClose
    \/ LegacyConnectionRollback
    \/ LegacyCursorRollback

\* one legacy connection and its cursor, with the operations that the
\* query service has no counterpart for
SpecLegacyRollback == LegacyInit /\ [][LegacyRollbackNext]_vars

RollbackNext ==
    \/ DbExecute
    \/ DbFetchOne
    \/ DbClose
    \/ DbConnectionClose
    \/ DbRollback
    \/ DbCallproc

\* the same for one dbapi connection and its cursor
SpecRollback == ClosingInit /\ [][RollbackNext]_vars

\* ------------------------------------------------------------------ claims
\* the rows 1..n of a result set, as tuples in column order
RowTuples(n) ==
    [k \in 1..n |-> <<k, 0 - k>>]

\* a query service whose signals are consistent: nextOffset is present exactly
\* when rows remain, the completion status says finished exactly when the
\* first page holds every row, a page requested with a limit is only short
\* when it is the last one, the first page is not empty when there are rows,
\* and the columns are described
ConsistentServer ==
    /\ srv.nextStyle = "honest"
    /\ srv.stateStyle = "honest"
    /\ srv.cap >= arraysize
    /\ srv.n > 0 => srv.first > 0
    /\ srv.meta

\* C2 (as claimed): execute() followed by fetchall() returns every row the
\* server holds for the query exactly once, in order, for positional and for
\* keyed pages.
C2_FetchAllReturnsEveryRow ==
    lastOp.executed /\ lastOp.op = "fetchall" /\ lastOp.nth = 1
        /\ lastOp.err = "none" /\ ConsistentServer
        => lastOp.rows = RowTuples(srv.n)

\* C3 (as claimed): after execute(), fetchone() called until it returns None
\* yields the same row sequence as one fetchall() call.
C3_FetchOneEqualsFetchAll ==
    lastOp.op = "execute" /\ lastOp.err = "none"
        => FetchOneUntilNone(Leg, batches, <<>>) =
               [rows |-> LFetchAll(Leg, batches).rows,
                err |-> LFetchAll(Leg, batches).err]

\* C4: while the finished flag of a cursor is set, no operation other than
\* execute() issues a get_query_results request, and _fetch_more_data
\* returns False.
C4_NoRequestOnceFinished ==
    [][_query_finished /\ lastOp'.op # "execute"
          => /\ reqs' = reqs
             /\ lastOp'.op = "_fetch_more_data" => ~lastOp'.more]_vars

\* C4 witness: _fetch_more_data was called on a cursor that had finished by
\* fetching pages, and returned False
C4_Witness ==
    /\ lastOp.op = "_fetch_more_data" /\ lastOp.wasFinished
    /\ ~lastOp.more /\ reqs >= 1 /\ _query_id # NoQueryId

\* C5 (as claimed): a fetch that receives a zero-row page raises no error,
\* leaves the cursor finished and requests no further page.
C5_ZeroRowPageEndsPagination ==
    lastOp.empty
        => lastOp.err = "none" /\ ~has_next /\ lastOp.after = 0

\* C6 (as claimed): after a successful execute(), rowcount is -1 while the
\* query is not finished, and once it is finished rowcount is the number of
\* rows the server returned.
C6_RowcountIsTotal ==
    lastOp.executed
        => _rowcount = IF _query_finished THEN Len(_rows_buffer) ELSE -1


\* C1: with the session missing or expired, concurrent get_token() calls are
\* serialized by the lock: at most one thread is inside the authentication
\* flow, a flow is only started at a time when the session obtained by the
\* previous flow is no longer valid (the re-check under the lock), and a
\* thread that takes the locked return issued no request of its own.
C1_SingleRefresh ==
    /\ \A t \in Threads :
          pc[t] \in {"h_core", "h_exchange"} /\ lastExp # NoTime
              => loc[t].at >= lastExp
    /\ Cardinality({t \in Threads :
           pc[t] \in {"h_core", "h_exchange", "h_w_token", "h_w_expiry",
                      "h_w_url"}}) <= 1
    /\ \A t \in Threads :
          pc[t] = "done" /\ result[t].kind = "pair" /\ ~loc[t].posted
              => result[t].tok \in 1..nTok /\ loc[t].auths = 0

\* C1 witness: one thread authenticated, another one found the session
\* invalid, waited and returned the same session without any request
C1_Witness ==
    \E t1, t2 \in Threads :
        /\ t1 # t2
        /\ pc[t1] = "done" /\ pc[t2] = "done"
        /\ result[t1].kind = "pair" /\ loc[t1].auths = 1
        /\ result[t2].kind = "pair" /\ ~loc[t2].posted
        /\ ~loc[t2].start_valid
        /\ result[t2].tok = result[t1].tok

\* C7 (as claimed): every (token, instance_url) pair returned by get_token()
\* comes from one single authentication response.
C7_PairFromOneResponse ==
    \A t \in Threads :
        result[t].kind = "pair" => result[t].url = UrlOf(result[t].tok)

\* C8 (as claimed): at most one authenticate() exchange is in flight.
C8_AtMostOneInFlight ==
    Cardinality({t \in Threads : pc[t] = "a_post"}) <= 1

\* C9: a request returns the session that is cached when it returns, and a
\* request that starts within the TTL window of the cached session returns
\* that same token and base URL without any authentication request.
C9_TokenReuse ==
    \A t \in SerialThreads :
        pc[t] = "done" =>
            /\ result[t].kind = "pair" =>
                  IF component = "helper"
                  THEN result[t].tok = exchange_token /\ result[t].url = instance_url
                  ELSE result[t].tok = _token /\ result[t].url = _base_api_path
            /\ loc[t].start_valid =>
                  /\ result[t].kind = "pair"
                  /\ result[t].tok = loc[t].start_tok
                  /\ result[t].url = loc[t].start_url
                  /\ ~loc[t].posted

\* C9 witness: the second request returns token 2, which the first request
\* obtained, without a request of its own
C9_Witness ==
    \E t \in SerialThreads :
        /\ pc[t] = "done" /\ calls = 2
        /\ loc[t].start_valid /\ ~loc[t].posted
        /\ result[t].kind = "pair" /\ result[t].tok = 2

TransientErrors == {"ValueError", "ConnectionError"}

\* C11 (as claimed): when every attempt of get_token() fails with a
\* transient or network error (connection built with the default
\* max_retries), get_token makes exactly MAX_RETRY_COUNT attempts and then
\* raises AuthenticationError.
C11_TransientFailureRetriedThreeTimes ==
    \A t \in SerialThreads :
        ( /\ component = "helper" /\ max_retries = MAX_RETRY_COUNT
          /\ pc[t] = "done" /\ result[t].kind # "pair"
          /\ loc[t].last_err \in TransientErrors )
            => /\ loc[t].i + 1 = MAX_RETRY_COUNT
               /\ result[t] = Raised("AuthenticationError")

\* C12 (as claimed): whatever max_retries is and however the attempts end,
\* get_token() returns a pair with a token or raises.
C12_PairOrRaise ==
    \A t \in SerialThreads :
        component = "helper" /\ pc[t] = "done"
            => \/ result[t].kind = "raise"
               \/ result[t].kind = "pair" /\ result[t].tok # NoToken

C14_FailureIsAuthenticationError ==
    \A t \in SerialThreads :
        pc[t] = "done" /\ result[t].kind = "raise"
            => result[t].err = "AuthenticationError"

\* C15: in every state of a Cursor, whatever calls were made and whether
\* they raised or not, 0 <= _row_index <= len(_rows_buffer).
C15_RowIndexWithinBuffer ==
    0 <= _row_index /\ _row_index <= Len(_rows_buffer)

\* C15 witness: fetchall() over several pages has moved the read position to
\* the end of a buffer of at least two rows
C15_Witness ==
    /\ lastOp.op = "fetchall" /\ lastOp.err = "none" /\ reqs >= 1
    /\ _row_index = Len(_rows_buffer) /\ _row_index >= 2

\* C16 (as claimed): fetchone, fetchmany and fetchall on a closed cursor, or
\* on a cursor whose connection is closed, raise the DB-API Error of the
\* closed check and return no rows.
C16_FetchOnClosedRaisesError ==
    lastOp.op \in {"fetchone", "fetchmany", "fetchall"}
        /\ (_is_closed \/ connection_is_closed)
        => lastOp.err = "Error" /\ lastOp.rows = <<>>

\* C17 (as claimed): after close() the cursor holds no buffered rows and no
\* handle of a query (here: the legacy cursor, its rows and its next batch).
C17_ClosedCursorHoldsNothing ==
    closed => data = <<>> /\ next_batch_id = NoBatchId

\* C18 (as claimed): when the answer to the submitted query carries a
\* completion status of failure, in whatever letter case, execute() raises
\* QueryError and leaves the cursor finished with an empty buffer.
C18_FailedQueryRaisesQueryError ==
    lastOp.op = "execute" /\ lastOp.status \in FailedStatuses
        => lastOp.err = "QueryError" /\ _query_finished /\ _rows_buffer = <<>>

\* the first page shows that the result set is complete: by the completion
\* status, by totalRows, by the missing or negative nextOffset, or by being
\* shorter than the page size
FirstPageFinished(s, limit) ==
    LET r == Response(s, 0, 0, TRUE)
    IN  \/ r.state = s.done
        \/ r.hasTotal /\ r.returnedRows >= r.totalRows
        \/ ~r.hasNext \/ r.nextOffset < 0
        \/ r.returnedRows < limit

\* C19 (as claimed): after a successful execute() of a query that did not
\* fail, the cursor is finished exactly when the first page shows that the
\* result set is complete, and otherwise it keeps the offset of the next page.
C19_FinishedAfterExecute ==
    lastOp.op = "execute" /\ lastOp.err = "none"
        /\ lastOp.status \notin FailedStatuses
        => /\ _query_finished = FirstPageFinished(srv, arraysize)
           /\ ~_query_finished
                 => _next_offset = Response(srv, 0, 0, TRUE).returnedRows

C21_FetchOneAtMostOnePage ==
    [][lastOp'.op = "fetchone" /\ lastOp.executed /\ ~closed
          => /\ reqs' <= reqs + 1
             /\ has_result /\ Len(data) > 0
                   => /\ reqs' = reqs
                      /\ lastOp'.err = "none"
                      /\ lastOp'.rows = <<Head(data)>>
             /\ has_result /\ data = <<>> /\ has_next
                   => /\ reqs' = reqs + 1
                      /\ Batch(batches, next_batch_id).data = <<>>
                            => lastOp'.none /\ lastOp'.err = "none"
             /\ lastOp.op = "fetchone" /\ lastOp.none
                   => /\ reqs' = reqs
                      /\ lastOp'.none /\ lastOp'.err = "none"]_vars

\* the fetchone() of the dbapi cursor does what C21 says, on every call that
\* raises nothing
C21_DbapiFetchOne ==
    [][lastOp'.op = "fetchone" /\ lastOp'.err = "none"
          => /\ reqs' <= reqs + 1
             /\ _row_index < Len(_rows_buffer)
                   => /\ reqs' = reqs
                      /\ lastOp'.rows = <<_rows_buffer[_row_index + 1]>>
             /\ _row_index >= Len(_rows_buffer) /\ ~_query_finished
                   => /\ reqs' = reqs + 1
                      /\ Len(_rows_buffer') = Len(_rows_buffer)
                            => lastOp'.none /\ _query_finished'
             /\ _row_index >= Len(_rows_buffer) /\ _query_finished
                   => reqs' = reqs /\ lastOp'.none]_vars

\* C22 (as claimed): on a cursor with an executed query, fetchmany(n) with
\* n > 0 returns the next n rows of the result set in order whenever at least
\* n rows remain, buffered or not; it returns fewer only when the result set
\* ends before that, and it requests no page when the buffer holds n unread
\* rows.
C22_FetchManyReturnsNRows ==
    lastOp.executed /\ CheckClosed(Cur) = "none" /\ ConsistentServer
        => \A size \in 1..MaxArraysize :
              \E f \in {FetchMany(Cur, srv, size)} :
                  /\ f.err = "none"
                  /\ f.rows = SubSeq(RowTuples(srv.n), _row_index + 1,
                                     Min(_row_index + size, srv.n))
                  /\ Len(_rows_buffer) - _row_index >= size
                        => f.c.reqs = reqs

\* the same for the first pages that a cursor does not take for the last
\* one: pages that are full or hold every row
C22_FullFirstPage ==
    srv.first >= Min(arraysize, srv.n) => C22_FetchManyReturnsNRows

\* C23 (as claimed): after an execute() call on an open cursor, whether it
\* succeeded or raised, the cursor holds no buffered row, batch handle or
\* continuation of an earlier query: it holds the first batch of the new
\* query, or nothing, and a fetchone() after an execute() that raised returns
\* no row.
C23_ExecuteClearsPriorState ==
    lastOp.op = "execute" /\ ~closed
        => IF lastOp.err = "none"
           THEN /\ data = Batch(batches, 1).data
                /\ has_next = Batch(batches, 1).has_next
                /\ next_batch_id = Batch(batches, 1).next_batch_id
           ELSE /\ data = <<>>
                /\ ~has_next
                /\ next_batch_id = NoBatchId
                /\ LFetchOne(Leg, batches).rows = <<>>

\* the execute() of the dbapi cursor leaves nothing of an earlier query on a
\* cursor that it did not find closed
C23_DbapiExecute ==
    lastOp.op = "execute" /\ CheckClosed(Cur) = "none"
        => /\ _row_index = 0
           /\ reqs = 0
           /\ IF lastOp.err = "none"
              THEN /\ _query_id = QueryId
                   /\ _next_offset = srv.first
                   /\ Len(_rows_buffer) = srv.first
              ELSE /\ _rows_buffer = <<>>
                   /\ _next_offset = 0
                   /\ _rowcount = -1
                   /\ _description = NoDescription
                   /\ _query_id \in {NoQueryId, FailedQueryId}
                   /\ FetchOne(Cur, srv).rows = <<>>
                   /\ FetchAll(Cur, srv).rows = <<>>

\* C24: execute() on an open cursor calls submit_query exactly once, whatever
\* the call comes to (an authentication failure included), and none on a
\* closed one; and while no execute() has succeeded since the last one that
\* raised, no fetchone, fetchmany or fetchall call issues a get_query_results
\* request.
C24_SubmitOnceNoRequestAfterFailure ==
    [][/\ lastOp'.op = "execute"
             => lastOp'.submits = IF CheckClosed(Cur) = "none" THEN 1 ELSE 0
       /\ ~lastOp.executed
             /\ lastOp'.op \in {"fetchone", "fetchmany", "fetchall"}
             => reqs' = reqs]_vars

\* C24 witness: the second fetch after an execute() that raised
\* AuthenticationError, a fetchone() that returned None without a request
C24_Witness ==
    /\ lastOp.op = "fetchone" /\ lastOp.authFailed /\ lastOp.nth = 2
    /\ lastOp.none /\ lastOp.err = "none" /\ reqs = 0
    /\ _query_id = NoQueryId /\ ~_is_closed

\* C25 (as claimed): rollback() and callproc() never return normally: on an
\* open connection and cursor they raise NotSupportedError.
C25_RollbackRaisesNotSupported ==
    lastOp.op \in {"connection.rollback", "cursor.rollback", "cursor.callproc"}
        /\ ~closed /\ CheckClosed(Cur) = "none"
        => lastOp.err = "NotSupportedError"

\* C26: when executemany() has completed, having called execute() once per
\* parameter set, rowcount is -1, whatever the execute() calls had set it to.
C26_ExecuteManyRowcountUnknown ==
    lastOp.op = "executemany" /\ lastOp.err = "none" => _rowcount = -1

\* C26 witness: executemany() completed over two parameter sets whose last
\* execute() found the query finished with rows, and so had set rowcount to
\* their number
C26_Witness ==
    /\ lastOp.op = "executemany" /\ lastOp.err = "none" /\ lastOp.nth = 2
    /\ _query_finished /\ Len(_rows_buffer) >= 1 /\ _rowcount = -1

\* the text that a parameter value is inserted as, by the rule of C27
Rendered(x) ==
    IF x.t = "int" THEN Decimal(x.n) ELSE Quoted(x.s)

\* the query with its i-th '?' replaced by the text of the i-th parameter
RECURSIVE Bound(_, _)
Bound(query, v) ==
    IF query = <<>> THEN <<>>
    ELSE IF Head(query) = Placeholder
    THEN Rendered(Head(v)) \o Bound(Tail(query), Tail(v))
    ELSE <<Head(query)>> \o Bound(Tail(query), v)

\* C27 (as claimed): execute(query, params) with a list of int and str
\* parameters submits the query in which the i-th '?' is replaced by the i-th
\* parameter, an int unquoted and a str in single quotes and escaped; when
\* the number of parameters is not the number of placeholders, it raises and
\* submits nothing.
C27_PlaceholdersBoundInOrder ==
    lastOp.op = "execute" /\ ~closed /\ lastOp.params.k = "list"
        /\ (\A i \in 1..Len(lastOp.params.v) : lastOp.params.v[i].t # "None")
        => IF Len(lastOp.params.v) # Count(lastOp.query)
           THEN lastOp.err = "Exception" /\ lastOp.submits = 0
           ELSE lastOp.submits = 1
                   /\ lastOp.submitted = Bound(lastOp.query, lastOp.params.v)

\* the same for the parameter lists that are as long as the query has
\* placeholders and hold no '?' in a str
C27_WithoutPlaceholderInValues ==
    lastOp.op = "execute"
        /\ Len(lastOp.params.v) = Count(lastOp.query)
        /\ (\A i \in 1..Len(lastOp.params.v) :
               Count(lastOp.params.v[i].s) = 0)
        => C27_PlaceholdersBoundInOrder

\* C28: on a cursor with a description, every keyed row of a page becomes
\* the tuple of its values in the column order of the description, whatever
\* the order of the keys in the payload, with null for every column whose key
\* the row does not have.
C28_KeyedRowInDescriptionOrder ==
    lastOp.op = "_data_to_tuples" /\ _description # NoDescription
        => /\ Len(lastOp.tuples) = Len(lastOp.page)
           /\ \A i \in 1..Len(lastOp.page) :
                 /\ Len(lastOp.tuples[i]) = Len(_description)
                 /\ \A j \in 1..Len(_description) :
                       LET holders == {k \in 1..Len(lastOp.page[i]) :
                                          lastOp.page[i][k].key = _description[j]}
                       IN  IF holders = {}
                           THEN lastOp.tuples[i][j] = Null
                           ELSE \A k \in holders :
                                   lastOp.tuples[i][j] = lastOp.page[i][k].value

\* C28 witness: a page of two rows was converted whose second row is
\* {b: 2, a: 1} and became (1, 2), and whose first row has no key b
C28_Witness ==
    /\ lastOp.op = "_data_to_tuples" /\ _description = <<"a", "b">>
    /\ Len(lastOp.page) = 2
    /\ lastOp.page[2] = <<[key |-> "b", value |-> 2], [key |-> "a", value |-> 1]>>
    /\ lastOp.tuples[2] = <<1, 2>>
    /\ lastOp.page[1] = <<[key |-> "a", value |-> 2]>>
    /\ lastOp.tuples[1] = <<2, Null>>

\* the type code that C29 gives for a type name: the fixed table, in any
\* letter case, and STRING for the names that are in no table
ClaimedTypeCode(word) ==
    CASE word \in {"VARCHAR", "CHAR"} -> STRING_
      [] word \in {"BOOLEAN", "INTEGER", "DOUBLE", "DECIMAL"} -> NUMBER
      [] word \in {"DATE", "TIME", "DATETIME", "TIMESTAMP"} -> DATETIME
      [] word \in {"GEOGRAPHY", "JSON", "NONE"} -> STRING_

\* C29 (as claimed): for a type name in any letter case get_type_object
\* returns STRING for VARCHAR and CHAR, NUMBER for BOOLEAN, INTEGER, DOUBLE and
\* DECIMAL, DATETIME for DATE, TIME, DATETIME and TIMESTAMP, and STRING for a
\* name that is in no table.
C29_TypeMappingFollowsTable ==
    lastOp.op = "get_type_object"
        /\ lastOp.type_name.word \in
               {"VARCHAR", "CHAR", "BOOLEAN", "INTEGER", "DOUBLE", "DECIMAL",
                "DATE", "TIME", "DATETIME", "TIMESTAMP", "GEOGRAPHY", "JSON",
                "NONE"}
        => lastOp.type_code = ClaimedTypeCode(lastOp.type_name.word)

\* the parts of C29 that the code has: the lookup does not depend on the
\* letter case, names in no table give STRING, and so do VARCHAR and CHAR;
\* DATE, TIME and DATETIME give DATETIME
C29_CaseInsensitiveAndTotal ==
    lastOp.op = "get_type_object"
        => /\ lastOp.type_code = GetTypeObject(UpperName(lastOp.type_name))
           /\ lastOp.type_name.word \in {"VARCHAR", "CHAR", "GEOGRAPHY", "JSON",
                                         "NONE"}
                 => lastOp.type_code = STRING_
           /\ lastOp.type_name.word \in {"DATE", "TIME", "DATETIME"}
                 => lastOp.type_code = DATETIME

\* the text is one of the parts of the message
Includes(message, text) ==
    \E i \in 1..Len(message) : message[i] = text

\* C30 (as claimed): when the query endpoint answers with a status other than
\* 200 and a body that is not JSON, _get_query_results raises Error, and the
\* message of the Error includes the status code and the text of the body.
C30_NonJsonErrorRaisesError ==
    lastOp.op = "_get_query_results"
        /\ lastOp.sql_response.status_code # 200
        /\ ~lastOp.sql_response.body.json
        => /\ lastOp.outcome.raised = "Error"
           /\ Includes(lastOp.outcome.message,
                       StatusText(lastOp.sql_response.status_code))
           /\ Includes(lastOp.outcome.message, lastOp.sql_response.body.text)

\* what the code does on a status other than 200: Error is raised exactly when
\* the body is JSON with a 'message' key, and its message carries that message
\* if it is not None
C30_ErrorOnlyWithJsonMessage ==
    lastOp.op = "_get_query_results" /\ lastOp.sql_response.status_code # 200
        => LET body == lastOp.sql_response.body
           IN  /\ lastOp.outcome.raised = "Error"
                     <=> body.json /\ body.message # NoKey
               /\ body.json /\ body.message \in Messages
                     => Includes(lastOp.outcome.message, body.message)
               /\ lastOp.outcome.raised # "none"

\* the last page that the cursor took rows from was a later page (not the
\* answer to the submission) and the server marked it as complete: the page
\* ended at _next_offset, which is the end of the result
LaterPageMarkedComplete ==
    /\ _query_id = QueryId /\ ~_is_closed
    /\ lastOp.op \in {"fetchone", "fetchmany", "fetchall"}
    /\ _next_offset > srv.first
    /\ srv.stateStyle = "honest" /\ Upper(srv.done) = "FINISHED"
    /\ _next_offset >= srv.n

\* C31 (as claimed): a non-empty later page that the server marks as complete
\* makes the cursor finished, as the first page does in execute().
C31_CompletePageFinishesCursor ==
    LaterPageMarkedComplete => _query_finished

\* what _fetch_more_data decides on: a later page finishes the cursor when it
\* has no nextOffset, when the offset reaches totalRows, or when it is shorter
\* than arraysize; the first page of execute() also finishes it on the
\* completion status
C31_FirstPageStatusFinishes ==
    lastOp.op = "execute" /\ lastOp.err = "none"
        /\ Upper(lastOp.status) = "FINISHED"
        => _query_finished

\* the last operation was an execute() on an open cursor whose submission was
\* answered with a response without queryId (no completion status was read)
AnsweredWithoutQueryId ==
    lastOp.op = "execute" /\ lastOp.submits = 1 /\ lastOp.status = "none"

\* C32 (as claimed): when the answer to the submitted query carries no
\* queryId, execute() raises InternalError.
C32_NoQueryIdRaisesInternalError ==
    AnsweredWithoutQueryId => lastOp.err = "InternalError"

\* what execute() raises for an answer without queryId: the InternalError of
\* line 177 is caught by the except Exception clause of lines 240-243 and
\* replaced by InterfaceError; the cursor keeps no query id
C32_NoQueryIdRaisesInterfaceError ==
    AnsweredWithoutQueryId
        => lastOp.err = "InterfaceError" /\ _query_id = NoQueryId

\* thread t has left get_token() after a call in which the revocation post
\* that followed a successful exchange failed in one of the given ways
RevocationFailed(t, ways) ==
    pc[t] = "done" /\ loc[t].revoke \in ways

\* C33 (as claimed): a revocation that fails after a successful exchange, with
\* an error status or with a transport exception, does not fail the
\* authentication: get_token() returns a token and its instance URL, and
\* that session is the cached one.
C33_RevocationFailureIsNotFatal ==
    \A t \in SerialThreads :
        RevocationFailed(t, {"Error status", "ConnectionError"})
            => /\ result[t].kind = "pair"
               /\ result[t].tok = exchange_token
               /\ result[t].url = instance_url

\* the part of C33 that the code has: a revocation answered with an error
\* status is not noticed, since the response is not read
C33_ErrorStatusIsNotFatal ==
    \A t \in SerialThreads :
        RevocationFailed(t, {"Error status"})
            => /\ result[t].kind = "pair"
               /\ result[t].tok = exchange_token
               /\ result[t].url = instance_url

\* C34 (as claimed): the description is fixed by the first page parsed at
\* execute(); a fetch of rows, whatever metadata the later pages carry, leaves
\* it unchanged.
C34_DescriptionFixedAtExecute ==
    [][lastOp'.op \in {"fetchone", "fetchmany", "fetchall"}
           => _description' = _description]_vars

\* what the legacy cursor does: after a fetch that requested batches the
\* description is the metadata of the last batch requested
C34_LegacyDescriptionOfLastBatch ==
    lastOp.op \in {"fetchone", "fetchall"} /\ reqs > 0
        => _description = lastOp.metadata[reqs + 1]

\* the call of thread t has ended with an exception, after it sent an
\* authentication request and without any authentication that succeeded
FailedAttempt(t) ==
    /\ pc[t] = "done" /\ result[t].kind = "raise"
    /\ loc[t].posted /\ loc[t].auths = 0

\* C35 (as claimed): an authentication attempt that fails leaves the cached
\* session as it was before the attempt, for the handlers of auth.py and for
\* AuthenticationHelper: the token is the one held when the call began, and so
\* is the instance URL of the helper.
C35_FailedAttemptLeavesSession ==
    \A t \in SerialThreads :
        FailedAttempt(t)
            => /\ component = "handler" => _token = loc[t].start_tok
               /\ component \in {"helper", "refresh"}
                     => /\ exchange_token = loc[t].start_tok
                        /\ instance_url = loc[t].start_url

\* the part of C35 that the code has: AuthenticationHelper writes its three
\* fields only after every step of the attempt has succeeded, and the
\* ClientCredentialsAuth handler reads one field only
C35_HelperFailureLeavesSession ==
    \A t \in SerialThreads :
        FailedAttempt(t) /\ ~(component = "handler" /\ handler = "password")
            => /\ component = "handler" => _token = loc[t].start_tok
               /\ component \in {"helper", "refresh"}
                     => /\ exchange_token = loc[t].start_tok
                        /\ instance_url = loc[t].start_url

\* thread t is inside _get_token, between lock.acquire() and the finally
\* clause
InsideGetToken(t) ==
    pc[t] \in {"h_locked", "h_core", "h_core_exchange", "h_exchange",
               "h_revoke", "h_w_token", "h_w_expiry", "h_w_url"}

\* C36: the lock of AuthenticationHelper is held exactly by the thread that is
\* inside _get_token: it is free while a thread sleeps before a retry and
\* after a call has ended with a return or with an exception; and under a
\* fair scheduler every thread that waits for the lock in get_token()
\* acquires it in the end.
C36_LockReleasedAndAcquired ==
    /\ [](\A t \in Threads : lock = t <=> InsideGetToken(t))
    /\ \A t \in Threads : (pc[t] = "h_lock") ~> (lock = t)

\* C36 witness: a thread holds the lock while another thread, whose attempt
\* failed, sleeps before its retry
C36_Witness ==
    \E t1, t2 \in Threads :
        /\ t1 # t2
        /\ lock = t1 /\ InsideGetToken(t1)
        /\ pc[t2] = "h_sleep" /\ loc[t2].last_err = "ValueError"

\* ------------------------------------------------------------------ C37
\* the instance URL that the authentication response of token tok carried
SessionUrl(tok) ==
    IF handler = "password" THEN UrlOf(tok) ELSE DomainUrl

\* a request of the client went out with a bearer token
RequestSent(t) ==
    component = "handler" /\ pc[t] = "done" /\ result[t].kind = "pair"

\* C37 (as claimed): every API request of SalesforceCDPClient is addressed to
\* the instance URL of the session whose token it carries, also after a
\* re-authentication that returned another instance URL.
C37_RequestGoesToSessionUrl ==
    \A t \in SerialThreads :
        RequestSent(t) => result[t].url = SessionUrl(result[t].tok)

\* C37 (what the code does): a request goes to the instance URL of the first
\* session the client saw, the one _get_base_api_path cached, or, when the
\* client has not cached any, to the one of the session it carries.
C37_RequestGoesToCachedUrl ==
    \A t \in SerialThreads :
        RequestSent(t) =>
            /\ result[t].url = _base_api_path
            /\ loc[t].start_url = NoUrl =>
                  result[t].url = SessionUrl(result[t].tok)
            /\ handler = "client_credentials" =>
                  result[t].url = SessionUrl(result[t].tok)

\* ------------------------------------------------------------------ C38
\* the text that _replace_next_param inserts for a value
InsertedText(x) ==
    CASE x.t = "None" -> <<"n", "u", "l", "l">>
      [] x.t = "int" -> Decimal(x.n)
      [] x.t = "str" -> Quoted(x.s)

\* the original query with its i-th '?' replaced by the text inserted for
\* the i-th parameter, the inserted texts left as they are
RECURSIVE BoundToOriginal(_, _)
BoundToOriginal(query, v) ==
    IF query = <<>> THEN <<>>
    ELSE IF Head(query) = Placeholder
    THEN InsertedText(Head(v)) \o BoundToOriginal(Tail(query), Tail(v))
    ELSE <<Head(query)>> \o BoundToOriginal(Tail(query), v)

\* execute(query, params) was called with as many parameters as the query
\* has placeholders
ExecutedWithMatchingParams ==
    /\ lastOp.op = "execute" /\ ~closed
    /\ lastOp.params.k = "list"
    /\ Len(lastOp.params.v) = Count(lastOp.query)

\* C38 (as claimed): a '?' inside an already substituted value is never
\* taken for a placeholder: parameter i replaces the i-th '?' of the original
\* query, and the text inserted for it is not altered by the substitution of
\* the later parameters.
C38_InsertedValueIsNotPlaceholder ==
    ExecutedWithMatchingParams
        => /\ lastOp.submits = 1
           /\ lastOp.submitted = BoundToOriginal(lastOp.query, lastOp.params.v)

\* C38 (what the code does): this holds when no str parameter but the last
\* one holds a '?'
C38_NoPlaceholderBeforeLastValue ==
    ExecutedWithMatchingParams
        /\ (\A i \in 1..(Len(lastOp.params.v) - 1) :
               lastOp.params.v[i].t = "str" => Count(lastOp.params.v[i].s) = 0)
        => /\ lastOp.submits = 1
           /\ lastOp.submitted = BoundToOriginal(lastOp.query, lastOp.params.v)

\* ------------------------- SalesforceCDPCursor.fetchall, request by request
\* where a caller of the legacy cursor is: at is "idle", "loop" (inside the
\* while of lines 59-66), "returned" or "raised"; completes says whether the
\* query service ever answers done = true; turn tells one pass of the loop
\* from the next
Looping(completes) ==
    [op |-> "none", at |-> "idle", completes |-> completes, turn |-> 0]

\* QueryResultParser.parse_result of the answer to the request for batch i. A
\* service that sets done marks the last batch; one that never does answers
\* every batch with done = false and a nextBatchId, and a request past the
\* last batch with a page without rows
BatchOf(b, i, completes) ==
    IF completes
    THEN Batch(b, i)
    ELSE IF i \in 1..Len(b)
    THEN [Batch(b, i) EXCEPT !.has_next = TRUE, !.next_batch_id = i + 1]
    ELSE [data |-> <<>>, has_next |-> TRUE, next_batch_id |-> i]

\* fetchall, lines 60-66: one pass of the loop
LoopPass(r) ==
    /\ data' = data \o r.data
    /\ has_next' = r.has_next
    /\ next_batch_id' = r.next_batch_id

\* cursor.execute(query) on an open cursor, lines 42-50
LoopExecute ==
    /\ lastOp.at \in {"idle", "returned", "raised"}
    /\ LET r == BatchOf(batches, 1, lastOp.completes)
       IN  /\ data' = r.data
           /\ has_next' = r.has_next
           /\ next_batch_id' = r.next_batch_id
    /\ has_result' = TRUE
    /\ reqs' = 0
    /\ lastOp' = [lastOp EXCEPT !.op = "execute", !.at = "idle"]
    /\ UNCHANGED <<closed, batches, authVars, cursorVars>>

\* cursor.fetchall() is called, lines 57-58
LoopFetchAll ==
    /\ lastOp.at \in {"idle", "returned", "raised"}
    /\ lastOp' = [lastOp EXCEPT !.op = "fetchall",
                                !.at = IF has_result THEN "loop" ELSE "raised"]
    /\ UNCHANGED <<data, has_next, next_batch_id, has_result, closed, reqs,
                   batches, authVars, cursorVars>>

\* lines 59-66: has_next is True, the next batch is requested and added
LoopNextBatch ==
    /\ lastOp.at = "loop"
    /\ has_next
    /\ LoopPass(BatchOf(batches, next_batch_id, lastOp.completes))
    /\ reqs' = Min(reqs + 1, MaxReqs)
    /\ lastOp' = [lastOp EXCEPT !.turn = 1 - @]
    /\ UNCHANGED <<has_result, closed, batches, authVars, cursorVars>>

\* lines 59, 67-69: has_next is not True, fetchall returns self.data
LoopReturn ==
    /\ lastOp.at = "loop"
    /\ ~has_next
    /\ has_result' = FALSE
    /\ lastOp' = [lastOp EXCEPT !.at = "returned"]
    /\ UNCHANGED <<data, has_next, next_batch_id, closed, reqs, batches,
                   authVars, cursorVars>>

LegacyLoopInit ==
    /\ NoAuth
    /\ CursorNew /\ arraysize = 1 /\ srv = NoServer
    /\ LegacyNew
    /\ batches \in BatchLists
    /\ reqs = 0
    /\ lastOp \in {Looping(completes) : completes \in BOOLEAN}

LegacyLoopNext ==
    \/ LoopExecute
    \/ LoopFetchAll
    \/ LoopNextBatch
    \/ LoopReturn

\* a call that has been entered keeps running
LegacyLoopFairness ==
    WF_vars(LoopNextBatch) /\ WF_vars(LoopReturn)

\* one legacy cursor whose fetchall runs request by request
SpecLegacyLoop ==
    LegacyLoopInit /\ [][LegacyLoopNext]_vars /\ LegacyLoopFairness

\* ------------------------------------------------------------------ C39
\* C39 (as claimed): fetchall() terminates against every backend that holds
\* finitely many rows, also one that never sets a completion flag and answers
\* every request past the end with an empty page.
C39_FetchAllTerminates ==
    (lastOp.at = "loop") ~> (lastOp.at = "returned")

\* C39 (what the code does): the fetchall() of the legacy cursor returns when
\* the query service marks the last batch done; against a service that never
\* does, an empty page leaves has_next set and the loop goes on
C39_FetchAllTerminatesWhenDoneIsSet ==
    /\ (lastOp.completes /\ lastOp.at = "loop") ~> (lastOp.at = "returned")
    /\ [](lastOp.at = "loop" /\ ~lastOp.completes => has_next)

\* C39, the dbapi Cursor: fetchall() ends with the query finished after at most
\* one request per row and one more, whatever completion signals the query
\* service sends
C39_DbFetchAllEndsOnEmptyPage ==
    lastOp.op = "fetchall" /\ lastOp.err = "none"
        => _query_finished /\ reqs <= srv.n + 1

\* ------------------------------------------------------------------ C40
\* C40 (as claimed): in the refresh-token flow a core token that the helper
\* has revoked after a successful exchange is never presented to the
\* token-exchange endpoint again.
C40_RevokedCoreTokenNotPresented ==
    component = "refresh" => ~lastOp.presented_revoked

\* C40 (what the code does): the core token of the connection is presented
\* at every refresh; it has not been revoked before when it is presented for
\* the first time, and a connection without a core token presents none
C40_FirstPresentationNotRevoked ==
    component = "refresh"
        => /\ lastOp.presented <= 1 => ~lastOp.presented_revoked
           /\ handler = RefreshToken => lastOp.presented = 0
           /\ lastOp.revoked => lastOp.presented >= 1

====
